---- MODULE Spec2Model ----
(***************************************************************************)
(* Metrics instrumentation of the calculator service: the gRPC unary       *)
(* interceptor of MetricsMiddleware, its classification helpers and the    *)
(* metric sinks it writes to.                                              *)
(*                                                                         *)
(* Strings that the code parses character by character (the full method    *)
(* address) are sequences of one-character strings; labels that the code   *)
(* only passes around are TLA+ strings.                                    *)
(***************************************************************************)
EXTENDS Integers, Sequences, FiniteSets, TLC

\* ------------------------------------------------------------------------
\* Bounds
\* ------------------------------------------------------------------------

\* number of calls the server runtime runs concurrently through the
\* interceptor (one goroutine per inbound call)
NumCalls == 2

Calls == 1..NumCalls

\* ------------------------------------------------------------------------
\* Method addresses
\* ------------------------------------------------------------------------

\* "/calculator.CalculatorService/CalculateDough"  (metrics_handler.go:641)
AddrCalculateDough ==
  <<
    "/", "c", "a", "l", "c", "u", "l", "a", "t", "o", "r", ".", "C", "a",
    "l", "c", "u", "l", "a", "t", "o", "r", "S", "e", "r", "v", "i", "c",
    "e", "/", "C", "a", "l", "c", "u", "l", "a", "t", "e", "D", "o", "u",
    "g", "h"
  >>

\* "/calculator.CalculatorService/CalculateIngredients"  (metrics_handler.go:642)
AddrCalculateIngredients ==
  <<
    "/", "c", "a", "l", "c", "u", "l", "a", "t", "o", "r", ".", "C", "a",
    "l", "c", "u", "l", "a", "t", "o", "r", "S", "e", "r", "v", "i", "c",
    "e", "/", "C", "a", "l", "c", "u", "l", "a", "t", "e", "I", "n", "g",
    "r", "e", "d", "i", "e", "n", "t", "s"
  >>

\* "/calculator.CalculatorService/OptimizeRecipe"  (metrics_handler.go:643)
AddrOptimizeRecipe ==
  <<
    "/", "c", "a", "l", "c", "u", "l", "a", "t", "o", "r", ".", "C", "a",
    "l", "c", "u", "l", "a", "t", "o", "r", "S", "e", "r", "v", "i", "c",
    "e", "/", "O", "p", "t", "i", "m", "i", "z", "e", "R", "e", "c", "i",
    "p", "e"
  >>

\* "/calculator.CalculatorService/GetHealth"  (metrics_handler.go:492)
AddrGetHealth ==
  <<
    "/", "c", "a", "l", "c", "u", "l", "a", "t", "o", "r", ".", "C", "a",
    "l", "c", "u", "l", "a", "t", "o", "r", "S", "e", "r", "v", "i", "c",
    "e", "/", "G", "e", "t", "H", "e", "a", "l", "t", "h"
  >>

\* "InvalidMethod"  (metrics_handler.go:181)
AddrInvalidMethod ==
  <<
    "I", "n", "v", "a", "l", "i", "d", "M", "e", "t", "h", "o", "d"
  >>

\* the label "unknown" returned by extractMethodName
LabelUnknown ==
  <<
    "u", "n", "k", "n", "o", "w", "n"
  >>

\* the addresses inbound calls carry in info.FullMethod
Addresses ==
  {AddrCalculateDough, AddrCalculateIngredients, AddrGetHealth,
   AddrInvalidMethod}

\* ------------------------------------------------------------------------
\* Errors and handler outcomes
\* ------------------------------------------------------------------------

\* a nil error
NoError == [kind |-> "nil", code |-> "OK"]

\* status.Error(code, msg): an error carrying a structured gRPC status
StatusError(code) == [kind |-> "status", code |-> code]

\* errors.New(msg): an error carrying no structured status
GenericError == [kind |-> "generic", code |-> "Unknown"]

\* a nil response
NilResp == "nil"

\* what a wrapped handler may return: (resp, err)
HandlerOutcomes ==
  { <<"success response", NoError>>,
    <<NilResp, StatusError("InvalidArgument")>>,
    <<"partial response", GenericError>> }

\* elapsed times time.Since(start) may yield; the wall clock is not
\* modelled and no decision of the interceptor depends on the value
Durations == {10}

\* ------------------------------------------------------------------------
\* Helper functions of the middleware
\* ------------------------------------------------------------------------

calculationMethods ==
  <<AddrCalculateDough, AddrCalculateIngredients, AddrOptimizeRecipe>>

\* faulty variant: every address with a parseable method name counts as a
\* calculation method
isCalculationMethod_AnyParsedMethod(fullMethod) ==
  /\ Len(fullMethod) > 0
  /\ fullMethod[1] = "/"
  /\ \E i \in 2..Len(fullMethod) : fullMethod[i] = "/"

isCalculationMethod(fullMethod) ==
  \E i \in 1..Len(calculationMethods) : fullMethod = calculationMethods[i]

\* faulty variant: the split is on the first slash
splitMethod_FirstSlash(s) ==
  CHOOSE parts \in
    {LET slashes == {i \in 1..Len(t) : t[i] = "/"}
     IN  IF slashes = {}
           THEN <<t>>
           ELSE LET i == CHOOSE k \in slashes : \A j \in slashes : k <= j
                IN  <<SubSeq(t, 1, i - 1), SubSeq(t, i + 1, Len(t))>> :
     t \in {s}} : TRUE

\* split on the last slash; no slash gives the one-element list
splitMethod(s) ==
  CHOOSE parts \in
    {LET slashes == {i \in 1..Len(t) : t[i] = "/"}
     IN  IF slashes = {}
           THEN <<t>>
           ELSE LET i == CHOOSE k \in slashes : \A j \in slashes : j <= k
                IN  <<SubSeq(t, 1, i - 1), SubSeq(t, i + 1, Len(t))>> :
     t \in {s}} : TRUE

\* the loop of splitService: i is the (1-based) index examined next, start
\* the first index of the segment being scanned
RECURSIVE splitServiceLoop(_, _, _, _)
splitServiceLoop(s, i, start, parts) ==
  IF i > Len(s)
    THEN IF start <= Len(s)
           THEN Append(parts, SubSeq(s, start, Len(s)))
           ELSE parts
    ELSE IF s[i] = "."
           THEN splitServiceLoop(s, i + 1, i + 1,
                  IF i > start
                    THEN Append(parts, SubSeq(s, start, i - 1))
                    ELSE parts)
           ELSE splitServiceLoop(s, i + 1, start, parts)

splitService(s) ==
  CHOOSE parts \in {splitServiceLoop(t, 1, 1, << >>) : t \in {s}} : TRUE

\* faulty variant: one service segment is accepted (>= 1 instead of >= 2)
extractMethodName_OneSegmentEnough(fullMethod) ==
  IF Len(fullMethod) > 0 /\ fullMethod[1] = "/"
    THEN LET parts == splitMethod(SubSeq(fullMethod, 2, Len(fullMethod)))
         IN  IF Len(parts) = 2
               THEN IF Len(splitService(parts[1])) >= 1
                      THEN parts[2]
                      ELSE LabelUnknown
               ELSE LabelUnknown
    ELSE LabelUnknown

extractMethodName(fullMethod) ==
  IF Len(fullMethod) > 0 /\ fullMethod[1] = "/"
    THEN LET parts == splitMethod(SubSeq(fullMethod, 2, Len(fullMethod)))
         IN  IF Len(parts) = 2
               THEN IF Len(splitService(parts[1])) >= 2
                      THEN parts[2]
                      ELSE LabelUnknown
               ELSE LabelUnknown
    ELSE LabelUnknown

\* faulty variant: DeadlineExceeded gets a bucket of its own, as it has in
\* the domain taxonomy
getStatusCode_TimeoutBucket(err) ==
  IF err = NoError
    THEN "success"
    ELSE IF err.kind = "status"
           THEN CASE err.code = "OK" -> "success"
                  [] err.code = "InvalidArgument" -> "invalid_argument"
                  [] err.code = "NotFound" -> "not_found"
                  [] err.code = "Internal" -> "internal_error"
                  [] err.code = "Unavailable" -> "unavailable"
                  [] err.code = "DeadlineExceeded" -> "timeout"
                  [] OTHER -> "error"
           ELSE "error"

getStatusCode(err) ==
  IF err = NoError
    THEN "success"
    ELSE IF err.kind = "status"
           THEN CASE err.code = "OK" -> "success"
                  [] err.code = "InvalidArgument" -> "invalid_argument"
                  [] err.code = "NotFound" -> "not_found"
                  [] err.code = "Internal" -> "internal_error"
                  [] err.code = "Unavailable" -> "unavailable"
                  [] OTHER -> "error"
           ELSE "error"

\* faulty variant: the type is chosen by the method name alone, whatever
\* the service
getCalculationType_ByMethodName(fullMethod) ==
  CASE extractMethodName(fullMethod) =
         extractMethodName(AddrCalculateDough) -> "dough_calculation"
    [] extractMethodName(fullMethod) =
         extractMethodName(AddrCalculateIngredients) ->
           "ingredient_calculation"
    [] extractMethodName(fullMethod) =
         extractMethodName(AddrOptimizeRecipe) -> "recipe_optimization"
    [] OTHER -> "unknown_calculation"

getCalculationType(fullMethod) ==
  CASE fullMethod = AddrCalculateDough -> "dough_calculation"
    [] fullMethod = AddrCalculateIngredients -> "ingredient_calculation"
    [] fullMethod = AddrOptimizeRecipe -> "recipe_optimization"
    [] OTHER -> "unknown_calculation"

\* faulty variant: DeadlineExceeded has no label of its own
getErrorType_NoTimeoutLabel(err) ==
  IF err.kind = "status"
    THEN CASE err.code = "InvalidArgument" -> "invalid_input"
           [] err.code = "NotFound" -> "recipe_not_found"
           [] err.code = "Internal" -> "calculation_error"
           [] err.code = "Unavailable" -> "service_unavailable"
           [] OTHER -> "unknown_error"
    ELSE "unknown_error"

getErrorType(err) ==
  IF err.kind = "status"
    THEN CASE err.code = "InvalidArgument" -> "invalid_input"
           [] err.code = "NotFound" -> "recipe_not_found"
           [] err.code = "Internal" -> "calculation_error"
           [] err.code = "Unavailable" -> "service_unavailable"
           [] err.code = "DeadlineExceeded" -> "timeout"
           [] OTHER -> "unknown_error"
    ELSE "unknown_error"

\* placeholder of the source: the tracked count is not read from anywhere
getCurrentActiveCalculations == 0

\* no BusinessMetrics (a nil pointer)
NoBusinessMetrics == [present |-> FALSE]

\* faulty variant: a response that is not nil carries business metrics
extractBusinessMetrics_FromResponse(r) ==
  IF r = NilResp
    THEN NoBusinessMetrics
    ELSE [present |-> TRUE, Weight |-> 500, Hydration |-> 65,
          Accuracy |-> 95, Ingredients |-> <<"flour">>,
          RecipeType |-> "sourdough"]

extractBusinessMetrics(r) == NoBusinessMetrics

\* faulty variant: the interceptor swallows the handler's error
InterceptorReturn_DropError(r, e) == <<r, NoError>>

\* what the interceptor hands back to its caller
InterceptorReturn(r, e) == <<r, e>>

\* ------------------------------------------------------------------------
\* Metric series: a map from label tuple to value, materialised on first use
\* ------------------------------------------------------------------------

CounterGet(m, k) == IF k \in DOMAIN m THEN m[k] ELSE 0

CounterInc(m, k) ==
  [x \in DOMAIN m \cup {k} |-> IF x = k THEN CounterGet(m, k) + 1 ELSE m[x]]

HistogramGet(m, k) == IF k \in DOMAIN m THEN m[k] ELSE << >>

HistogramObserve(m, k, v) ==
  [x \in DOMAIN m \cup {k} |->
     IF x = k THEN Append(HistogramGet(m, k), v) ELSE m[x]]

EmptyMap == [x \in {} |-> 0]

\* ------------------------------------------------------------------------
\* State
\* ------------------------------------------------------------------------

VARIABLES
  pc,                    \* position of each call inside the interceptor
  fullMethod,            \* info.FullMethod of each call
  resp, err,             \* what the handler returned to the interceptor
  duration,              \* time.Since(start) of each call
  ret,                   \* what the interceptor returned to its caller
  trace,                 \* the sink operations each call has invoked
  activeCalculations,    \* domain sink: the in-flight gauge
  calculationsTotal,     \* domain sink: total-count per type
  calculationDurations,  \* domain sink: duration observations per type
  calculationErrors,     \* domain sink: errors per <<type, error type>>
  doughWeights,          \* domain sink: weight observations
  doughHydrations,       \* domain sink: hydration observations
  doughAccuracies,       \* domain sink: accuracy observations
  ingredientValidations, \* domain sink: per <<ingredient, valid>>
  recipeTypes,           \* domain sink: per recipe type
  grpcRequests,          \* technical sink: per <<method, status>>
  grpcDurations,         \* technical sink: observations per method
  results,               \* the CalculationResults handed to the recorder
  argAddress,            \* address a helper function is applied to
  argError,              \* error a helper function is applied to
  applied,               \* the helper function applied last
  output,                \* what that helper function returned
  calls,                 \* the operations invoked on the sink or backend
  body,                  \* the pans handed to TotalDoughWeightByPans
  index,                 \* position of its loop in body.Pans
  resultPans,            \* its local variable result
  lookups,               \* its calls of GetStrategy and Calculate
  reply                  \* what it returned to its caller

callVars == <<pc, fullMethod, resp, err, duration, ret, trace>>

qualityVars ==
  <<doughWeights, doughHydrations, doughAccuracies, ingredientValidations,
    recipeTypes>>

domainVars ==
  <<activeCalculations, calculationsTotal, calculationDurations,
    calculationErrors, qualityVars>>

technicalVars == <<grpcRequests, grpcDurations>>

recorderVars == <<results>>

helperVars == <<argAddress, argError, applied, output>>

backendVars == <<calls>>

serviceVars == <<body, index, resultPans, lookups, reply>>

vars ==
  <<callVars, domainVars, technicalVars, recorderVars, helperVars,
    backendVars, serviceVars>>

NoValue == "none"

\* nothing has been returned to the caller: the empty tuple of return values
NotReturned == << >>

Op(name, args) == [op |-> name, args |-> args]

\* var result domain.Pans: no pans, total area zero
ZeroPans == [Pans |-> << >>, TotalArea |-> 0]

Init ==
  /\ pc = [c \in Calls |-> "idle"]
  /\ fullMethod = [c \in Calls |-> << >>]
  /\ resp = [c \in Calls |-> NoValue]
  /\ err = [c \in Calls |-> NoError]
  /\ duration = [c \in Calls |-> 0]
  /\ ret = [c \in Calls |-> NotReturned]
  /\ trace = [c \in Calls |-> << >>]
  /\ activeCalculations = 0
  /\ calculationsTotal = EmptyMap
  /\ calculationDurations = EmptyMap
  /\ calculationErrors = EmptyMap
  /\ doughWeights = << >>
  /\ doughHydrations = << >>
  /\ doughAccuracies = << >>
  /\ ingredientValidations = EmptyMap
  /\ recipeTypes = EmptyMap
  /\ grpcRequests = EmptyMap
  /\ grpcDurations = EmptyMap
  /\ results = << >>
  /\ argAddress = << >>
  /\ argError = NoError
  /\ applied = NoValue
  /\ output = NoValue
  /\ calls = << >>
  /\ body = [Pans |-> << >>]
  /\ index = 1
  /\ resultPans = ZeroPans
  /\ lookups = << >>
  /\ reply = NotReturned

\* ------------------------------------------------------------------------
\* The unary interceptor, one action per sink operation or handler call
\* ------------------------------------------------------------------------

\* a call arrives: start := time.Now(), then the entry gate and gauge write
UnaryEnter(c, addr) ==
  /\ pc[c] = "idle"
  /\ UNCHANGED <<recorderVars, helperVars, backendVars, serviceVars>>
  /\ fullMethod' = [fullMethod EXCEPT ![c] = addr]
  /\ IF isCalculationMethod(addr)
       THEN /\ activeCalculations' = getCurrentActiveCalculations + 1
            /\ trace' = [trace EXCEPT ![c] = Append(@,
                 Op("SetActiveCalculations",
                    <<getCurrentActiveCalculations + 1>>))]
       ELSE UNCHANGED <<activeCalculations, trace>>
  /\ pc' = [pc EXCEPT ![c] = "handler"]
  /\ UNCHANGED <<resp, err, duration, ret>>
  /\ UNCHANGED <<calculationsTotal, calculationDurations, calculationErrors,
                 qualityVars, technicalVars>>

\* resp, err := handler(ctx, req) returns; duration := time.Since(start)
UnaryHandlerReturn(c, outcome, elapsed) ==
  /\ pc[c] = "handler"
  /\ UNCHANGED <<recorderVars, helperVars, backendVars, serviceVars>>
  /\ resp' = [resp EXCEPT ![c] = outcome[1]]
  /\ err' = [err EXCEPT ![c] = outcome[2]]
  /\ duration' = [duration EXCEPT ![c] = elapsed]
  /\ trace' = [trace EXCEPT ![c] = Append(@, Op("handler", << >>))]
  /\ pc' = [pc EXCEPT ![c] = "tech_counter"]
  /\ UNCHANGED <<fullMethod, ret, domainVars, technicalVars>>

\* handler(ctx, req) panics: the interceptor has no deferred call and no
\* recover, so the panic unwinds through it and no later statement runs
UnaryHandlerPanic(c) ==
  /\ pc[c] = "handler"
  /\ UNCHANGED <<recorderVars, helperVars, backendVars, serviceVars>>
  /\ trace' = [trace EXCEPT ![c] = Append(@, Op("handler", << >>))]
  /\ pc' = [pc EXCEPT ![c] = "panicked"]
  /\ UNCHANGED <<fullMethod, resp, err, duration, ret, domainVars,
                 technicalVars>>

\* faulty variant: the request counter is keyed by the domain error kind instead of
\* the technical status label
UnaryTechCounter_DomainErrorKey(c) ==
  /\ pc[c] = "tech_counter"
  /\ UNCHANGED <<recorderVars, helperVars, backendVars, serviceVars>>
  /\ \E method \in {extractMethodName(fullMethod[c])},
        statusCode \in {getErrorType(err[c])} :
         /\ grpcRequests' = CounterInc(grpcRequests, <<method, statusCode>>)
         /\ trace' = [trace EXCEPT ![c] = Append(@,
              Op("IncrementGRPCRequests", <<method, statusCode>>))]
  /\ pc' = [pc EXCEPT ![c] = "tech_duration"]
  /\ UNCHANGED <<fullMethod, resp, err, duration, ret, domainVars,
                 grpcDurations>>

\* m.prometheusMetrics.IncrementGRPCRequests(method, statusCode)
UnaryTechCounter(c) ==
  /\ pc[c] = "tech_counter"
  /\ UNCHANGED <<recorderVars, helperVars, backendVars, serviceVars>>
  /\ \E method \in {extractMethodName(fullMethod[c])},
        statusCode \in {getStatusCode(err[c])} :
         /\ grpcRequests' = CounterInc(grpcRequests, <<method, statusCode>>)
         /\ trace' = [trace EXCEPT ![c] = Append(@,
              Op("IncrementGRPCRequests", <<method, statusCode>>))]
  /\ pc' = [pc EXCEPT ![c] = "tech_duration"]
  /\ UNCHANGED <<fullMethod, resp, err, duration, ret, domainVars,
                 grpcDurations>>

\* faulty variant: a calculation method writes the exit gauge before its
\* technical duration is observed
UnaryTechDuration_ExitGaugeFirst(c) ==
  /\ pc[c] = "tech_duration"
  /\ UNCHANGED <<recorderVars, helperVars, backendVars, serviceVars>>
  /\ LET method == extractMethodName(fullMethod[c])
         observed == Op("RecordGRPCDuration", <<method, duration[c]>>)
         written == Op("SetActiveCalculations",
                       <<getCurrentActiveCalculations - 1>>)
     IN  /\ grpcDurations' = HistogramObserve(grpcDurations, method,
                                              duration[c])
         /\ IF isCalculationMethod(fullMethod[c])
              THEN /\ pc' = [pc EXCEPT ![c] = "domain"]
                   /\ activeCalculations' = getCurrentActiveCalculations - 1
                   /\ trace' = [trace EXCEPT ![c] =
                        Append(Append(@, written), observed)]
                   /\ UNCHANGED ret
              ELSE /\ pc' = [pc EXCEPT ![c] = "done"]
                   /\ trace' = [trace EXCEPT ![c] = Append(@, observed)]
                   /\ ret' = [ret EXCEPT ![c] =
                        InterceptorReturn(resp[c], err[c])]
                   /\ UNCHANGED activeCalculations
  /\ UNCHANGED <<fullMethod, resp, err, duration, grpcRequests>>
  /\ UNCHANGED <<calculationsTotal, calculationDurations, calculationErrors,
                 qualityVars>>

\* m.prometheusMetrics.RecordGRPCDuration(method, duration); a call that is
\* not a calculation method then returns resp, err
UnaryTechDuration(c) ==
  /\ pc[c] = "tech_duration"
  /\ UNCHANGED <<recorderVars, helperVars, backendVars, serviceVars>>
  /\ \E method \in {extractMethodName(fullMethod[c])} :
         /\ grpcDurations' = HistogramObserve(grpcDurations, method,
                                              duration[c])
         /\ trace' = [trace EXCEPT ![c] = Append(@,
              Op("RecordGRPCDuration", <<method, duration[c]>>))]
  /\ IF isCalculationMethod(fullMethod[c])
       THEN /\ pc' = [pc EXCEPT ![c] = "exit_gauge"]
            /\ UNCHANGED ret
       ELSE /\ pc' = [pc EXCEPT ![c] = "done"]
            /\ ret' = [ret EXCEPT ![c] = InterceptorReturn(resp[c], err[c])]
  /\ UNCHANGED <<fullMethod, resp, err, duration, domainVars, grpcRequests>>

\* faulty variant: the exit gauge write waits until no other call is inside
\* its handler
UnaryExitGauge_WaitsForHandlers(c) ==
  /\ pc[c] = "exit_gauge"
  /\ \A d \in Calls \ {c} : pc[d] # "handler"
  /\ UNCHANGED <<recorderVars, helperVars, backendVars, serviceVars>>
  /\ activeCalculations' = getCurrentActiveCalculations - 1
  /\ trace' = [trace EXCEPT ![c] = Append(@,
       Op("SetActiveCalculations", <<getCurrentActiveCalculations - 1>>))]
  /\ pc' = [pc EXCEPT ![c] = "domain"]
  /\ UNCHANGED <<fullMethod, resp, err, duration, ret>>
  /\ UNCHANGED <<calculationsTotal, calculationDurations, calculationErrors,
                 qualityVars, technicalVars>>

\* faulty variant: the exit gauge write lowers the gauge by one instead of
\* setting it from the placeholder count
UnaryExitGauge_Decrements(c) ==
  /\ pc[c] = "exit_gauge"
  /\ UNCHANGED <<recorderVars, helperVars, backendVars, serviceVars>>
  /\ activeCalculations' = activeCalculations - 1
  /\ trace' = [trace EXCEPT ![c] = Append(@,
       Op("SetActiveCalculations", <<activeCalculations - 1>>))]
  /\ pc' = [pc EXCEPT ![c] = "domain"]
  /\ UNCHANGED <<fullMethod, resp, err, duration, ret>>
  /\ UNCHANGED <<calculationsTotal, calculationDurations, calculationErrors,
                 qualityVars, technicalVars>>

\* m.domainMetrics.SetActiveCalculations(getCurrentActiveCalculations() - 1)
UnaryExitGauge(c) ==
  /\ pc[c] = "exit_gauge"
  /\ UNCHANGED <<recorderVars, helperVars, backendVars, serviceVars>>
  /\ activeCalculations' = getCurrentActiveCalculations - 1
  /\ trace' = [trace EXCEPT ![c] = Append(@,
       Op("SetActiveCalculations", <<getCurrentActiveCalculations - 1>>))]
  /\ pc' = [pc EXCEPT ![c] = "domain"]
  /\ UNCHANGED <<fullMethod, resp, err, duration, ret>>
  /\ UNCHANGED <<calculationsTotal, calculationDurations, calculationErrors,
                 qualityVars, technicalVars>>

\* faulty variant: the error counter is keyed by the technical status label instead
\* of the domain error kind
UnaryDomainError_TechnicalKey(c) ==
  /\ pc[c] = "domain"
  /\ UNCHANGED <<recorderVars, helperVars, backendVars, serviceVars>>
  /\ err[c] # NoError
  /\ \E calculationType \in {getCalculationType(fullMethod[c])},
        errorType \in {getStatusCode(err[c])} :
         /\ calculationErrors' =
              CounterInc(calculationErrors, <<calculationType, errorType>>)
         /\ trace' = [trace EXCEPT ![c] = Append(@,
              Op("IncrementCalculationErrors",
                 <<calculationType, errorType>>))]
  /\ pc' = [pc EXCEPT ![c] = "done"]
  /\ ret' = [ret EXCEPT ![c] = InterceptorReturn(resp[c], err[c])]
  /\ UNCHANGED <<fullMethod, resp, err, duration>>
  /\ UNCHANGED <<activeCalculations, calculationsTotal, calculationDurations,
                 qualityVars, technicalVars>>

\* faulty variant: a failed call is counted in the total as well
UnaryDomainError_CountsTotal(c) ==
  /\ pc[c] = "domain"
  /\ UNCHANGED <<recorderVars, helperVars, backendVars, serviceVars>>
  /\ err[c] # NoError
  /\ \E calculationType \in {getCalculationType(fullMethod[c])},
        errorType \in {getErrorType(err[c])} :
         /\ calculationErrors' =
              CounterInc(calculationErrors, <<calculationType, errorType>>)
         /\ calculationsTotal' = CounterInc(calculationsTotal, calculationType)
         /\ trace' = [trace EXCEPT ![c] = Append(Append(@,
              Op("IncrementCalculationsTotal", <<calculationType>>)),
              Op("IncrementCalculationErrors",
                 <<calculationType, errorType>>))]
  /\ pc' = [pc EXCEPT ![c] = "done"]
  /\ ret' = [ret EXCEPT ![c] = InterceptorReturn(resp[c], err[c])]
  /\ UNCHANGED <<fullMethod, resp, err, duration>>
  /\ UNCHANGED <<activeCalculations, calculationDurations,
                 qualityVars, technicalVars>>

\* err != nil: IncrementCalculationErrors(calculationType, errorType), then
\* return resp, err
UnaryDomainError(c) ==
  /\ pc[c] = "domain"
  /\ UNCHANGED <<recorderVars, helperVars, backendVars, serviceVars>>
  /\ err[c] # NoError
  /\ \E calculationType \in {getCalculationType(fullMethod[c])},
        errorType \in {getErrorType(err[c])} :
         /\ calculationErrors' =
              CounterInc(calculationErrors, <<calculationType, errorType>>)
         /\ trace' = [trace EXCEPT ![c] = Append(@,
              Op("IncrementCalculationErrors",
                 <<calculationType, errorType>>))]
  /\ pc' = [pc EXCEPT ![c] = "done"]
  /\ ret' = [ret EXCEPT ![c] = InterceptorReturn(resp[c], err[c])]
  /\ UNCHANGED <<fullMethod, resp, err, duration>>
  /\ UNCHANGED <<activeCalculations, calculationsTotal, calculationDurations,
                 qualityVars, technicalVars>>

\* faulty variant: the success path forgets the total-count increment
UnaryDomainTotal_NoIncrement(c) ==
  /\ pc[c] = "domain"
  /\ UNCHANGED <<recorderVars, helperVars, backendVars, serviceVars>>
  /\ err[c] = NoError
  /\ pc' = [pc EXCEPT ![c] = "domain_duration"]
  /\ UNCHANGED <<fullMethod, resp, err, duration, ret, trace>>
  /\ UNCHANGED <<domainVars, technicalVars>>

\* err == nil: IncrementCalculationsTotal(calculationType)
UnaryDomainTotal(c) ==
  /\ pc[c] = "domain"
  /\ UNCHANGED <<recorderVars, helperVars, backendVars, serviceVars>>
  /\ err[c] = NoError
  /\ \E calculationType \in {getCalculationType(fullMethod[c])} :
         /\ calculationsTotal' = CounterInc(calculationsTotal, calculationType)
         /\ trace' = [trace EXCEPT ![c] = Append(@,
              Op("IncrementCalculationsTotal", <<calculationType>>))]
  /\ pc' = [pc EXCEPT ![c] = "domain_duration"]
  /\ UNCHANGED <<fullMethod, resp, err, duration, ret>>
  /\ UNCHANGED <<activeCalculations, calculationDurations, calculationErrors,
                 qualityVars, technicalVars>>

\* the sink operations recordBusinessMetrics invokes, in order
RECURSIVE ingredientOps(_)
ingredientOps(ingredients) ==
  IF ingredients = << >>
    THEN << >>
    ELSE <<Op("IncrementIngredientValidations", <<Head(ingredients), TRUE>>)>>
           \o ingredientOps(Tail(ingredients))

RECURSIVE ingredientIncs(_, _)
ingredientIncs(m, ingredients) ==
  IF ingredients = << >>
    THEN m
    ELSE ingredientIncs(CounterInc(m, <<Head(ingredients), TRUE>>),
                        Tail(ingredients))

recordBusinessMetricsOps(business) ==
  (IF business.Weight > 0
     THEN <<Op("RecordDoughWeight", <<business.Weight>>)>> ELSE << >>)
  \o (IF business.Hydration > 0
        THEN <<Op("RecordDoughHydration", <<business.Hydration>>)>>
        ELSE << >>)
  \o (IF business.Accuracy > 0
        THEN <<Op("RecordDoughAccuracy", <<business.Accuracy>>)>>
        ELSE << >>)
  \o (IF business.RecipeType # ""
        THEN <<Op("IncrementRecipeTypes", <<business.RecipeType>>)>>
        ELSE << >>)
  \o ingredientOps(business.Ingredients)

\* recordBusinessMetrics(m.domainMetrics, business)
recordBusinessMetrics(business) ==
  /\ doughWeights' = IF business.Weight > 0
                       THEN Append(doughWeights, business.Weight)
                       ELSE doughWeights
  /\ doughHydrations' = IF business.Hydration > 0
                          THEN Append(doughHydrations, business.Hydration)
                          ELSE doughHydrations
  /\ doughAccuracies' = IF business.Accuracy > 0
                          THEN Append(doughAccuracies, business.Accuracy)
                          ELSE doughAccuracies
  /\ recipeTypes' = IF business.RecipeType # ""
                      THEN CounterInc(recipeTypes, business.RecipeType)
                      ELSE recipeTypes
  /\ ingredientValidations' =
       ingredientIncs(ingredientValidations, business.Ingredients)

\* RecordCalculationDuration(calculationType, duration), then the business
\* metrics of the response if extractBusinessMetrics finds any, then
\* return resp, err
UnaryDomainDuration(c) ==
  /\ pc[c] = "domain_duration"
  /\ UNCHANGED <<recorderVars, helperVars, backendVars, serviceVars>>
  /\ \E calculationType \in {getCalculationType(fullMethod[c])},
        businessMetrics \in {extractBusinessMetrics(resp[c])} :
         /\ calculationDurations' =
              HistogramObserve(calculationDurations, calculationType,
                               duration[c])
         /\ IF businessMetrics # NoBusinessMetrics
              THEN /\ recordBusinessMetrics(businessMetrics)
                   /\ trace' = [trace EXCEPT ![c] =
                        Append(@, Op("RecordCalculationDuration",
                                     <<calculationType, duration[c]>>))
                          \o recordBusinessMetricsOps(businessMetrics)]
              ELSE /\ UNCHANGED qualityVars
                   /\ trace' = [trace EXCEPT ![c] =
                        Append(@, Op("RecordCalculationDuration",
                                     <<calculationType, duration[c]>>))]
  /\ pc' = [pc EXCEPT ![c] = "done"]
  /\ ret' = [ret EXCEPT ![c] = InterceptorReturn(resp[c], err[c])]
  /\ UNCHANGED <<fullMethod, resp, err, duration>>
  /\ UNCHANGED <<activeCalculations, calculationsTotal, calculationErrors,
                 technicalVars>>

Next ==
  \E c \in Calls :
    \/ \E addr \in Addresses : UnaryEnter(c, addr)
    \/ \E outcome \in HandlerOutcomes, elapsed \in Durations :
         UnaryHandlerReturn(c, outcome, elapsed)
    \/ UnaryHandlerPanic(c)
    \/ UnaryTechCounter(c)
    \/ UnaryTechDuration(c)
    \/ UnaryExitGauge(c)
    \/ UnaryDomainError(c)
    \/ UnaryDomainTotal(c)
    \/ UnaryDomainDuration(c)

Spec == Init /\ [][Next]_vars

\* ------------------------------------------------------------------------
\* The unary interceptor on a sink whose operations may panic
\* ------------------------------------------------------------------------

\* number of calls made on a sink whose operations may panic
NumFailingCalls == 1

FailingCalls == 1..NumFailingCalls

\* time.Since(start) of those calls
FailureDurations == {10, 20}

\* m.domainMetrics.SetActiveCalculations(...) of the entry side panics: the
\* interceptor has no deferred call and no recover, the handler is never
\* invoked and nothing is returned
UnaryEnterSinkPanic(c, addr) ==
  /\ pc[c] = "idle"
  /\ UNCHANGED <<recorderVars, helperVars, backendVars, serviceVars>>
  /\ isCalculationMethod(addr)
  /\ fullMethod' = [fullMethod EXCEPT ![c] = addr]
  /\ trace' = [trace EXCEPT ![c] = Append(@, Op("sink panic", << >>))]
  /\ pc' = [pc EXCEPT ![c] = "sink_panicked"]
  /\ UNCHANGED <<resp, err, duration, ret, domainVars, technicalVars>>

\* the sink operation the call is about to invoke after the handler has
\* returned panics: the panic unwinds through the interceptor, the
\* statements after it, return resp, err included, do not run
UnarySinkPanic(c) ==
  /\ pc[c] \in {"tech_counter", "tech_duration", "exit_gauge", "domain",
                "domain_duration"}
  /\ UNCHANGED <<recorderVars, helperVars, backendVars, serviceVars>>
  /\ trace' = [trace EXCEPT ![c] = Append(@, Op("sink panic", << >>))]
  /\ pc' = [pc EXCEPT ![c] = "sink_panicked"]
  /\ UNCHANGED <<fullMethod, resp, err, duration, ret, domainVars,
                 technicalVars>>

NextSinkFailure ==
  \E c \in FailingCalls :
    \/ \E addr \in Addresses : UnaryEnter(c, addr)
    \/ \E addr \in Addresses : UnaryEnterSinkPanic(c, addr)
    \/ \E outcome \in HandlerOutcomes, elapsed \in FailureDurations :
         UnaryHandlerReturn(c, outcome, elapsed)
    \/ UnaryHandlerPanic(c)
    \/ UnaryTechCounter(c)
    \/ UnaryTechDuration(c)
    \/ UnaryExitGauge(c)
    \/ UnaryDomainError(c)
    \/ UnaryDomainTotal(c)
    \/ UnaryDomainDuration(c)
    \/ UnarySinkPanic(c)

SpecSinkFailure == Init /\ [][NextSinkFailure]_vars

\* ------------------------------------------------------------------------
\* The stream interceptor
\* ------------------------------------------------------------------------

\* what a stream handler may return: nil, a status error, a plain error
StreamHandlerErrors ==
  {NoError, StatusError("InvalidArgument"), GenericError}

\* what the stream interceptor hands back to its caller
StreamInterceptorReturn(e) == <<e>>

\* faulty variant: the stream interceptor classifies the address and writes
\* the entry gauge as the unary interceptor does
StreamEnter_WritesGauge(c, addr) ==
  /\ pc[c] = "idle"
  /\ UNCHANGED <<recorderVars, helperVars, backendVars, serviceVars>>
  /\ fullMethod' = [fullMethod EXCEPT ![c] = addr]
  /\ IF isCalculationMethod(addr)
       THEN /\ activeCalculations' = getCurrentActiveCalculations + 1
            /\ trace' = [trace EXCEPT ![c] = Append(@,
                 Op("SetActiveCalculations",
                    <<getCurrentActiveCalculations + 1>>))]
       ELSE UNCHANGED <<activeCalculations, trace>>
  /\ pc' = [pc EXCEPT ![c] = "stream_handler"]
  /\ UNCHANGED <<resp, err, duration, ret>>
  /\ UNCHANGED <<calculationsTotal, calculationDurations, calculationErrors,
                 qualityVars, technicalVars>>

\* a stream arrives: start := time.Now(); no classification, no gauge write
StreamEnter(c, addr) ==
  /\ pc[c] = "idle"
  /\ UNCHANGED <<recorderVars, helperVars, backendVars, serviceVars>>
  /\ fullMethod' = [fullMethod EXCEPT ![c] = addr]
  /\ pc' = [pc EXCEPT ![c] = "stream_handler"]
  /\ UNCHANGED <<resp, err, duration, ret, trace, domainVars, technicalVars>>

\* err := handler(srv, stream) returns; duration := time.Since(start)
StreamHandlerReturn(c, e, elapsed) ==
  /\ pc[c] = "stream_handler"
  /\ UNCHANGED <<recorderVars, helperVars, backendVars, serviceVars>>
  /\ err' = [err EXCEPT ![c] = e]
  /\ duration' = [duration EXCEPT ![c] = elapsed]
  /\ trace' = [trace EXCEPT ![c] = Append(@, Op("handler", << >>))]
  /\ pc' = [pc EXCEPT ![c] = "stream_counter"]
  /\ UNCHANGED <<fullMethod, resp, ret, domainVars, technicalVars>>

\* handler(srv, stream) panics: nothing is deferred, no later statement runs
StreamHandlerPanic(c) ==
  /\ pc[c] = "stream_handler"
  /\ UNCHANGED <<recorderVars, helperVars, backendVars, serviceVars>>
  /\ trace' = [trace EXCEPT ![c] = Append(@, Op("handler", << >>))]
  /\ pc' = [pc EXCEPT ![c] = "panicked"]
  /\ UNCHANGED <<fullMethod, resp, err, duration, ret, domainVars,
                 technicalVars>>

\* m.prometheusMetrics.IncrementGRPCRequests(method, statusCode)
StreamTechCounter(c) ==
  /\ pc[c] = "stream_counter"
  /\ UNCHANGED <<recorderVars, helperVars, backendVars, serviceVars>>
  /\ \E method \in {extractMethodName(fullMethod[c])},
        statusCode \in {getStatusCode(err[c])} :
         /\ grpcRequests' = CounterInc(grpcRequests, <<method, statusCode>>)
         /\ trace' = [trace EXCEPT ![c] = Append(@,
              Op("IncrementGRPCRequests", <<method, statusCode>>))]
  /\ pc' = [pc EXCEPT ![c] = "stream_duration"]
  /\ UNCHANGED <<fullMethod, resp, err, duration, ret, domainVars,
                 grpcDurations>>

\* faulty variant: the duration of a failed stream is not observed
StreamTechDuration_OnlyOnSuccess(c) ==
  /\ pc[c] = "stream_duration"
  /\ UNCHANGED <<recorderVars, helperVars, backendVars, serviceVars>>
  /\ \E method \in {extractMethodName(fullMethod[c])} :
         IF err[c] = NoError
           THEN /\ grpcDurations' = HistogramObserve(grpcDurations, method,
                                                     duration[c])
                /\ trace' = [trace EXCEPT ![c] = Append(@,
                     Op("RecordGRPCDuration", <<method, duration[c]>>))]
           ELSE UNCHANGED <<grpcDurations, trace>>
  /\ pc' = [pc EXCEPT ![c] = "done"]
  /\ ret' = [ret EXCEPT ![c] = StreamInterceptorReturn(err[c])]
  /\ UNCHANGED <<fullMethod, resp, err, duration, domainVars, grpcRequests>>

\* m.prometheusMetrics.RecordGRPCDuration(method, duration), then return err
StreamTechDuration(c) ==
  /\ pc[c] = "stream_duration"
  /\ UNCHANGED <<recorderVars, helperVars, backendVars, serviceVars>>
  /\ \E method \in {extractMethodName(fullMethod[c])} :
         /\ grpcDurations' = HistogramObserve(grpcDurations, method,
                                              duration[c])
         /\ trace' = [trace EXCEPT ![c] = Append(@,
              Op("RecordGRPCDuration", <<method, duration[c]>>))]
  /\ pc' = [pc EXCEPT ![c] = "done"]
  /\ ret' = [ret EXCEPT ![c] = StreamInterceptorReturn(err[c])]
  /\ UNCHANGED <<fullMethod, resp, err, duration, domainVars, grpcRequests>>

NextStream ==
  \E c \in Calls :
    \/ \E addr \in Addresses : StreamEnter(c, addr)
    \/ \E e \in StreamHandlerErrors, elapsed \in Durations :
         StreamHandlerReturn(c, e, elapsed)
    \/ StreamHandlerPanic(c)
    \/ StreamTechCounter(c)
    \/ StreamTechDuration(c)

SpecStream == Init /\ [][NextStream]_vars

\* ------------------------------------------------------------------------
\* Unary calls and streams side by side, each on its own goroutine
\* ------------------------------------------------------------------------

\* one calculation method and one other method
ConcurrentAddresses == {AddrCalculateDough, AddrGetHealth}

\* a handler that succeeds and one that fails
ConcurrentOutcomes ==
  {<<"success response", NoError>>, <<NilResp, StatusError("InvalidArgument")>>}

\* the statements of call c that follow the return of its handler
RecordingStep(c) ==
  \/ UnaryTechCounter(c)
  \/ UnaryTechDuration(c)
  \/ UnaryExitGauge(c)
  \/ UnaryDomainError(c)
  \/ UnaryDomainTotal(c)
  \/ UnaryDomainDuration(c)
  \/ StreamTechCounter(c)
  \/ StreamTechDuration(c)

NextConcurrent ==
  \E c \in Calls :
    \/ \E addr \in ConcurrentAddresses : UnaryEnter(c, addr)
    \/ \E outcome \in ConcurrentOutcomes, elapsed \in Durations :
         UnaryHandlerReturn(c, outcome, elapsed)
    \/ UnaryHandlerPanic(c)
    \/ \E addr \in ConcurrentAddresses : StreamEnter(c, addr)
    \/ \E outcome \in ConcurrentOutcomes, elapsed \in Durations :
         StreamHandlerReturn(c, outcome[2], elapsed)
    \/ StreamHandlerPanic(c)
    \/ RecordingStep(c)

\* the scheduler does not halt while some goroutine has a statement it can
\* run; a handler need not return, and no call need arrive
SpecConcurrent ==
  /\ Init
  /\ [][NextConcurrent]_vars
  /\ WF_vars(\E c \in Calls : RecordingStep(c))

\* ------------------------------------------------------------------------
\* MetricsRecorder.RecordCalculation
\* ------------------------------------------------------------------------

\* number of RecordCalculation calls made on one recorder
MaxRecords == 3

\* number of RecordCalculation calls when every field of the result varies
MaxFieldRecords == 1

ResultTypes == {"dough_calculation", "ingredient_calculation"}

ResultErrorTypes == {"invalid_input", "timeout"}

\* results of successive calculations: type, outcome and weight vary
SequenceResults ==
  [Type : ResultTypes, Duration : {100}, Success : {TRUE},
   ErrorType : {""}, Weight : {0, 500, 750}, Hydration : {0},
   Accuracy : {0}, IngredientsUsed : {<< >>}]
  \cup
  [Type : ResultTypes, Duration : {100}, Success : {FALSE},
   ErrorType : ResultErrorTypes, Weight : {0, 500, 750}, Hydration : {0},
   Accuracy : {0}, IngredientsUsed : {<< >>}]

\* results in which every field varies independently of the others
FieldResults ==
  [Type : ResultTypes, Duration : {80, 100}, Success : BOOLEAN,
   ErrorType : ResultErrorTypes, Weight : {-1, 0, 500},
   Hydration : {0, 65}, Accuracy : {0, 95},
   IngredientsUsed : {<< >>, <<"flour">>, <<"flour", "water", "flour">>}]

\* faulty variant: one increment per distinct ingredient name
RECURSIVE recordIngredients_OncePerName(_, _)
recordIngredients_OncePerName(m, ingredients) ==
  IF ingredients = << >>
    THEN m
    ELSE recordIngredients_OncePerName(
           IF <<Head(ingredients), TRUE>> \in DOMAIN m
             THEN m
             ELSE CounterInc(m, <<Head(ingredients), TRUE>>),
           Tail(ingredients))

\* for _, ingredient := range result.IngredientsUsed:
\*   IncrementIngredientValidations(ingredient, true)
RECURSIVE recordIngredients(_, _)
recordIngredients(m, ingredients) ==
  IF ingredients = << >>
    THEN m
    ELSE recordIngredients(CounterInc(m, <<Head(ingredients), TRUE>>),
                           Tail(ingredients))

\* IncrementCalculationsTotal(result.Type), then
\* RecordCalculationDuration(result.Type, result.Duration)
totalOps(result) ==
  <<Op("IncrementCalculationsTotal", <<result.Type>>),
    Op("RecordCalculationDuration", <<result.Type, result.Duration>>)>>

\* IncrementCalculationErrors(result.Type, result.ErrorType)
errorOps(result) ==
  <<Op("IncrementCalculationErrors", <<result.Type, result.ErrorType>>)>>

\* if result.Weight > 0: RecordDoughWeight(result.Weight)
weightOps(result) ==
  IF result.Weight > 0
    THEN <<Op("RecordDoughWeight", <<result.Weight>>)>> ELSE << >>

\* if result.Hydration > 0: RecordDoughHydration(result.Hydration)
hydrationOps(result) ==
  IF result.Hydration > 0
    THEN <<Op("RecordDoughHydration", <<result.Hydration>>)>> ELSE << >>

\* if result.Accuracy > 0: RecordDoughAccuracy(result.Accuracy)
accuracyOps(result) ==
  IF result.Accuracy > 0
    THEN <<Op("RecordDoughAccuracy", <<result.Accuracy>>)>> ELSE << >>

\* the operations RecordCalculation invokes on r.metrics, in order
recordCalculationOps(result) ==
  totalOps(result)
    \o (IF ~result.Success
          THEN errorOps(result)
          ELSE weightOps(result) \o hydrationOps(result)
                 \o accuracyOps(result)
                 \o ingredientOps(result.IngredientsUsed))

\* faulty variant: a failed calculation returns before it is counted
RecordCalculation_FailureNotCounted(result) ==
  /\ IF ~result.Success
       THEN /\ calculationErrors' =
                 CounterInc(calculationErrors,
                            <<result.Type, result.ErrorType>>)
            /\ UNCHANGED <<calculationsTotal, calculationDurations,
                           doughWeights, doughHydrations, doughAccuracies,
                           ingredientValidations>>
       ELSE /\ calculationsTotal' =
                 CounterInc(calculationsTotal, result.Type)
            /\ calculationDurations' =
                 HistogramObserve(calculationDurations, result.Type,
                                  result.Duration)
            /\ UNCHANGED calculationErrors
            /\ doughWeights' = IF result.Weight > 0
                                 THEN Append(doughWeights, result.Weight)
                                 ELSE doughWeights
            /\ doughHydrations' =
                 IF result.Hydration > 0
                   THEN Append(doughHydrations, result.Hydration)
                   ELSE doughHydrations
            /\ doughAccuracies' =
                 IF result.Accuracy > 0
                   THEN Append(doughAccuracies, result.Accuracy)
                   ELSE doughAccuracies
            /\ ingredientValidations' =
                 recordIngredients(ingredientValidations,
                                   result.IngredientsUsed)
  /\ results' = Append(results, result)
  /\ calls' = calls \o (IF ~result.Success
                         THEN errorOps(result)
                         ELSE totalOps(result) \o weightOps(result)
                                \o hydrationOps(result)
                                \o accuracyOps(result)
                                \o ingredientOps(result.IngredientsUsed))
  /\ UNCHANGED <<activeCalculations, recipeTypes, callVars, technicalVars,
                 helperVars, serviceVars>>

\* faulty variant: the failure path does not return and records the
\* quality fields as well
RecordCalculation_NoReturnOnFailure(result) ==
  /\ calculationsTotal' = CounterInc(calculationsTotal, result.Type)
  /\ calculationDurations' =
       HistogramObserve(calculationDurations, result.Type, result.Duration)
  /\ calculationErrors' =
       IF ~result.Success
         THEN CounterInc(calculationErrors,
                         <<result.Type, result.ErrorType>>)
         ELSE calculationErrors
  /\ doughWeights' = IF result.Weight > 0
                       THEN Append(doughWeights, result.Weight)
                       ELSE doughWeights
  /\ doughHydrations' = IF result.Hydration > 0
                          THEN Append(doughHydrations, result.Hydration)
                          ELSE doughHydrations
  /\ doughAccuracies' = IF result.Accuracy > 0
                          THEN Append(doughAccuracies, result.Accuracy)
                          ELSE doughAccuracies
  /\ ingredientValidations' =
       recordIngredients(ingredientValidations, result.IngredientsUsed)
  /\ results' = Append(results, result)
  /\ calls' = calls \o totalOps(result)
                \o (IF ~result.Success THEN errorOps(result) ELSE << >>)
                \o weightOps(result) \o hydrationOps(result)
                \o accuracyOps(result)
                \o ingredientOps(result.IngredientsUsed)
  /\ UNCHANGED <<activeCalculations, recipeTypes, callVars, technicalVars,
                 helperVars, serviceVars>>

\* faulty variant: the sentinel zero is recorded (>= 0 instead of > 0)
RecordCalculation_RecordsZero(result) ==
  /\ calculationsTotal' = CounterInc(calculationsTotal, result.Type)
  /\ calculationDurations' =
       HistogramObserve(calculationDurations, result.Type, result.Duration)
  /\ IF ~result.Success
       THEN /\ calculationErrors' =
                 CounterInc(calculationErrors,
                            <<result.Type, result.ErrorType>>)
            /\ UNCHANGED <<doughWeights, doughHydrations, doughAccuracies,
                           ingredientValidations>>
       ELSE /\ UNCHANGED calculationErrors
            /\ doughWeights' = IF result.Weight >= 0
                                 THEN Append(doughWeights, result.Weight)
                                 ELSE doughWeights
            /\ doughHydrations' =
                 IF result.Hydration >= 0
                   THEN Append(doughHydrations, result.Hydration)
                   ELSE doughHydrations
            /\ doughAccuracies' =
                 IF result.Accuracy >= 0
                   THEN Append(doughAccuracies, result.Accuracy)
                   ELSE doughAccuracies
            /\ ingredientValidations' =
                 recordIngredients(ingredientValidations,
                                   result.IngredientsUsed)
  /\ results' = Append(results, result)
  /\ calls' = calls \o totalOps(result)
                \o (IF ~result.Success
                      THEN errorOps(result)
                      ELSE (IF result.Weight >= 0
                              THEN <<Op("RecordDoughWeight",
                                        <<result.Weight>>)>>
                              ELSE << >>)
                           \o (IF result.Hydration >= 0
                                 THEN <<Op("RecordDoughHydration",
                                           <<result.Hydration>>)>>
                                 ELSE << >>)
                           \o (IF result.Accuracy >= 0
                                 THEN <<Op("RecordDoughAccuracy",
                                           <<result.Accuracy>>)>>
                                 ELSE << >>)
                           \o ingredientOps(result.IngredientsUsed))
  /\ UNCHANGED <<activeCalculations, recipeTypes, callVars, technicalVars,
                 helperVars, serviceVars>>

\* faulty variant: the weight is recorded before the success check
RecordCalculation_WeightBeforeSuccessCheck(result) ==
  /\ calculationsTotal' = CounterInc(calculationsTotal, result.Type)
  /\ calculationDurations' =
       HistogramObserve(calculationDurations, result.Type, result.Duration)
  /\ doughWeights' = IF result.Weight > 0
                       THEN Append(doughWeights, result.Weight)
                       ELSE doughWeights
  /\ IF ~result.Success
       THEN /\ calculationErrors' =
                 CounterInc(calculationErrors,
                            <<result.Type, result.ErrorType>>)
            /\ UNCHANGED <<doughHydrations, doughAccuracies,
                           ingredientValidations>>
       ELSE /\ UNCHANGED calculationErrors
            /\ doughHydrations' =
                 IF result.Hydration > 0
                   THEN Append(doughHydrations, result.Hydration)
                   ELSE doughHydrations
            /\ doughAccuracies' =
                 IF result.Accuracy > 0
                   THEN Append(doughAccuracies, result.Accuracy)
                   ELSE doughAccuracies
            /\ ingredientValidations' =
                 recordIngredients(ingredientValidations,
                                   result.IngredientsUsed)
  /\ results' = Append(results, result)
  /\ calls' = calls \o totalOps(result) \o weightOps(result)
                \o (IF ~result.Success
                      THEN errorOps(result)
                      ELSE hydrationOps(result) \o accuracyOps(result)
                             \o ingredientOps(result.IngredientsUsed))
  /\ UNCHANGED <<activeCalculations, recipeTypes, callVars, technicalVars,
                 helperVars, serviceVars>>

\* faulty variant: a successful calculation also counts its type as a
\* recipe type
RecordCalculation_CountsRecipeType(result) ==
  /\ calculationsTotal' = CounterInc(calculationsTotal, result.Type)
  /\ calculationDurations' =
       HistogramObserve(calculationDurations, result.Type, result.Duration)
  /\ IF ~result.Success
       THEN /\ calculationErrors' =
                 CounterInc(calculationErrors,
                            <<result.Type, result.ErrorType>>)
            /\ UNCHANGED <<doughWeights, doughHydrations, doughAccuracies,
                           ingredientValidations, recipeTypes>>
       ELSE /\ UNCHANGED calculationErrors
            /\ doughWeights' = IF result.Weight > 0
                                 THEN Append(doughWeights, result.Weight)
                                 ELSE doughWeights
            /\ doughHydrations' =
                 IF result.Hydration > 0
                   THEN Append(doughHydrations, result.Hydration)
                   ELSE doughHydrations
            /\ doughAccuracies' =
                 IF result.Accuracy > 0
                   THEN Append(doughAccuracies, result.Accuracy)
                   ELSE doughAccuracies
            /\ ingredientValidations' =
                 recordIngredients(ingredientValidations,
                                   result.IngredientsUsed)
            /\ recipeTypes' = CounterInc(recipeTypes, result.Type)
  /\ results' = Append(results, result)
  /\ calls' = calls \o recordCalculationOps(result)
                \o (IF result.Success
                      THEN <<Op("IncrementRecipeTypes", <<result.Type>>)>>
                      ELSE << >>)
  /\ UNCHANGED <<activeCalculations, callVars, technicalVars, helperVars, serviceVars>>

\* r.RecordCalculation(ctx, result), the whole call
RecordCalculation(result) ==
  /\ calculationsTotal' = CounterInc(calculationsTotal, result.Type)
  /\ calculationDurations' =
       HistogramObserve(calculationDurations, result.Type, result.Duration)
  /\ IF ~result.Success
       THEN /\ calculationErrors' =
                 CounterInc(calculationErrors,
                            <<result.Type, result.ErrorType>>)
            /\ UNCHANGED <<doughWeights, doughHydrations, doughAccuracies,
                           ingredientValidations>>
       ELSE /\ UNCHANGED calculationErrors
            /\ doughWeights' = IF result.Weight > 0
                                 THEN Append(doughWeights, result.Weight)
                                 ELSE doughWeights
            /\ doughHydrations' =
                 IF result.Hydration > 0
                   THEN Append(doughHydrations, result.Hydration)
                   ELSE doughHydrations
            /\ doughAccuracies' =
                 IF result.Accuracy > 0
                   THEN Append(doughAccuracies, result.Accuracy)
                   ELSE doughAccuracies
            /\ ingredientValidations' =
                 recordIngredients(ingredientValidations,
                                   result.IngredientsUsed)
  /\ results' = Append(results, result)
  /\ calls' = calls \o recordCalculationOps(result)
  /\ UNCHANGED <<activeCalculations, recipeTypes, callVars, technicalVars,
                 helperVars, serviceVars>>

\* successive calculations recorded on one recorder
NextRecorder ==
  \E result \in SequenceResults :
    /\ Len(results) < MaxRecords
    /\ RecordCalculation(result)

SpecRecorder == Init /\ [][NextRecorder]_vars

\* calculations whose every field varies, recorded on one recorder
NextRecorderFields ==
  \E result \in FieldResults :
    /\ Len(results) < MaxFieldRecords
    /\ RecordCalculation(result)

SpecRecorderFields == Init /\ [][NextRecorderFields]_vars

\* ------------------------------------------------------------------------
\* The helper functions applied to arbitrary addresses and errors
\* ------------------------------------------------------------------------

\* longest generated address
MaxLen == 5

\* characters the parser distinguishes, and one it does not
Alphabet == {"/", ".", "a"}

ShortAddresses == UNION {[1..n -> Alphabet] : n \in 0..MaxLen}

\* "/other.Service/CalculateDough"  (metrics_handler.go:235)
AddrOtherService ==
  <<
    "/", "o", "t", "h", "e", "r", ".", "S", "e", "r", "v", "i", "c", "e",
    "/", "C", "a", "l", "c", "u", "l", "a", "t", "e", "D", "o", "u", "g",
    "h"
  >>

\* "/calculator.CalculatorService/UnknownMethod"  (metrics_handler.go:323)
AddrUnknownMethod ==
  <<
    "/", "c", "a", "l", "c", "u", "l", "a", "t", "o", "r", ".", "C", "a",
    "l", "c", "u", "l", "a", "t", "o", "r", "S", "e", "r", "v", "i", "c",
    "e", "/", "U", "n", "k", "n", "o", "w", "n", "M", "e", "t", "h", "o",
    "d"
  >>

\* "/Method"  (metrics_handler.go:191)
AddrNoService ==
  <<
    "/", "M", "e", "t", "h", "o", "d"
  >>

AddressInputs ==
  ShortAddresses
    \cup {AddrCalculateDough, AddrCalculateIngredients, AddrOptimizeRecipe,
          AddrGetHealth, AddrOtherService, AddrUnknownMethod,
          AddrInvalidMethod, AddrNoService}

\* the status codes of google.golang.org/grpc/codes
StatusCodes ==
  {"OK", "Canceled", "Unknown", "InvalidArgument", "DeadlineExceeded",
   "NotFound", "AlreadyExists", "PermissionDenied", "ResourceExhausted",
   "FailedPrecondition", "Aborted", "OutOfRange", "Unimplemented",
   "Internal", "Unavailable", "DataLoss", "Unauthenticated"}

\* nil, an unstructured error, and an error carrying each status code
ErrorInputs ==
  {NoError, GenericError} \cup {StatusError(code) : code \in StatusCodes}

InitHelpers ==
  /\ pc = [c \in Calls |-> "idle"]
  /\ fullMethod = [c \in Calls |-> << >>]
  /\ resp = [c \in Calls |-> NoValue]
  /\ err = [c \in Calls |-> NoError]
  /\ duration = [c \in Calls |-> 0]
  /\ ret = [c \in Calls |-> NotReturned]
  /\ trace = [c \in Calls |-> << >>]
  /\ activeCalculations = 0
  /\ calculationsTotal = EmptyMap
  /\ calculationDurations = EmptyMap
  /\ calculationErrors = EmptyMap
  /\ doughWeights = << >>
  /\ doughHydrations = << >>
  /\ doughAccuracies = << >>
  /\ ingredientValidations = EmptyMap
  /\ recipeTypes = EmptyMap
  /\ grpcRequests = EmptyMap
  /\ grpcDurations = EmptyMap
  /\ results = << >>
  /\ argAddress \in AddressInputs
  /\ argError \in ErrorInputs
  /\ applied = NoValue
  /\ output = NoValue
  /\ calls = << >>
  /\ body = [Pans |-> << >>]
  /\ index = 1
  /\ resultPans = ZeroPans
  /\ lookups = << >>
  /\ reply = NotReturned

ApplyIsCalculationMethod ==
  /\ applied' = "isCalculationMethod"
  /\ output' = isCalculationMethod(argAddress)
  /\ UNCHANGED <<argAddress, argError, callVars, domainVars, technicalVars,
                 recorderVars, backendVars, serviceVars>>

ApplyGetCalculationType ==
  /\ applied' = "getCalculationType"
  /\ output' = getCalculationType(argAddress)
  /\ UNCHANGED <<argAddress, argError, callVars, domainVars, technicalVars,
                 recorderVars, backendVars, serviceVars>>

ApplyExtractMethodName ==
  /\ applied' = "extractMethodName"
  /\ output' = extractMethodName(argAddress)
  /\ UNCHANGED <<argAddress, argError, callVars, domainVars, technicalVars,
                 recorderVars, backendVars, serviceVars>>

ApplyGetStatusCode ==
  /\ applied' = "getStatusCode"
  /\ output' = getStatusCode(argError)
  /\ UNCHANGED <<argAddress, argError, callVars, domainVars, technicalVars,
                 recorderVars, backendVars, serviceVars>>

ApplyGetErrorType ==
  /\ applied' = "getErrorType"
  /\ output' = getErrorType(argError)
  /\ UNCHANGED <<argAddress, argError, callVars, domainVars, technicalVars,
                 recorderVars, backendVars, serviceVars>>

NextHelpers ==
  \/ ApplyIsCalculationMethod
  \/ ApplyGetCalculationType
  \/ ApplyExtractMethodName
  \/ ApplyGetStatusCode
  \/ ApplyGetErrorType

SpecHelpers == InitHelpers /\ [][NextHelpers]_vars

\* ------------------------------------------------------------------------
\* The classification of an address and the unary interceptor on it
\* ------------------------------------------------------------------------

\* calls made with the generated address
NumClassifiedCalls == 1

ClassifiedCalls == 1..NumClassifiedCalls

\* an address is drawn from every generated string; handlers of the calls
\* made with it return as in Spec
InitClassification ==
  /\ InitHelpers
  /\ argError = NoError

\* the gate of the interceptor and the label of its domain series, applied
\* to the same address
ApplyClassification ==
  /\ applied' = "isCalculationMethod, getCalculationType"
  /\ output' =
       <<isCalculationMethod(argAddress), getCalculationType(argAddress)>>
  /\ UNCHANGED <<argAddress, argError, callVars, domainVars, technicalVars,
                 recorderVars, backendVars, serviceVars>>

NextClassification ==
  \/ ApplyClassification
  \/ \E c \in ClassifiedCalls :
       \/ UnaryEnter(c, argAddress)
       \/ \E outcome \in HandlerOutcomes, elapsed \in Durations :
            UnaryHandlerReturn(c, outcome, elapsed)
       \/ UnaryTechCounter(c)
       \/ UnaryTechDuration(c)
       \/ UnaryExitGauge(c)
       \/ UnaryDomainError(c)
       \/ UnaryDomainTotal(c)
       \/ UnaryDomainDuration(c)

SpecClassification == InitClassification /\ [][NextClassification]_vars

\* ------------------------------------------------------------------------
\* DoughCalculatorService.TotalDoughWeightByPans
\* ------------------------------------------------------------------------

\* longest list of pans handed to the service
MaxPans == 3

PanShapes == {"round", "square"}

PanAreas == {100, 150}

\* a pan of the input, together with what the two collaborators return for
\* it: whether strategies.GetStrategy(item.Shape) fails, whether
\* strategy.Calculate(item.Measures) fails, and the area of the pan it
\* computes when it does not
PanItems ==
  [Shape : PanShapes, GetStrategyFails : BOOLEAN, CalculateFails : BOOLEAN,
   Area : PanAreas]

Bodies == {[Pans |-> ps] : ps \in UNION {[1..n -> PanItems] : n \in 0..MaxPans}}

\* the pan strategy.Calculate returns for an item
Calculate(item) == [Shape |-> item.Shape, Area |-> item.Area]

\* errors.New(text)
ErrorsNew(text) == [kind |-> "generic", code |-> "Unknown", text |-> text]

\* the nil *domain.Pans
NilPans == [nil |-> TRUE]

\* &result
AddressOf(r) == [nil |-> FALSE, Pans |-> r.Pans, TotalArea |-> r.TotalArea]

InitService ==
  /\ pc = [c \in Calls |-> "idle"]
  /\ fullMethod = [c \in Calls |-> << >>]
  /\ resp = [c \in Calls |-> NoValue]
  /\ err = [c \in Calls |-> NoError]
  /\ duration = [c \in Calls |-> 0]
  /\ ret = [c \in Calls |-> NotReturned]
  /\ trace = [c \in Calls |-> << >>]
  /\ activeCalculations = 0
  /\ calculationsTotal = EmptyMap
  /\ calculationDurations = EmptyMap
  /\ calculationErrors = EmptyMap
  /\ doughWeights = << >>
  /\ doughHydrations = << >>
  /\ doughAccuracies = << >>
  /\ ingredientValidations = EmptyMap
  /\ recipeTypes = EmptyMap
  /\ grpcRequests = EmptyMap
  /\ grpcDurations = EmptyMap
  /\ results = << >>
  /\ argAddress = << >>
  /\ argError = NoError
  /\ applied = NoValue
  /\ output = NoValue
  /\ calls = << >>
  /\ body \in Bodies
  /\ index = 1
  /\ resultPans = ZeroPans
  /\ lookups = << >>
  /\ reply = NotReturned

\* faulty variant: a pan whose shape has no strategy is skipped
TotalDoughWeightByPansStep_SkipsUnsupported ==
  /\ reply = NotReturned
  /\ index <= Len(body.Pans)
  /\ \E item \in {body.Pans[index]} :
       IF item.GetStrategyFails
         THEN /\ lookups' = Append(lookups, Op("GetStrategy", <<index>>))
              /\ index' = index + 1
              /\ UNCHANGED <<resultPans, reply>>
         ELSE IF item.CalculateFails
           THEN /\ lookups' = lookups \o <<Op("GetStrategy", <<index>>),
                                           Op("Calculate", <<index>>)>>
                /\ reply' = <<NilPans, ErrorsNew("error processing pan")>>
                /\ UNCHANGED <<index, resultPans>>
           ELSE /\ lookups' = lookups \o <<Op("GetStrategy", <<index>>),
                                           Op("Calculate", <<index>>)>>
                /\ resultPans' =
                     [Pans |-> Append(resultPans.Pans, Calculate(item)),
                      TotalArea |->
                        resultPans.TotalArea + Calculate(item).Area]
                /\ index' = index + 1
                /\ UNCHANGED reply
  /\ UNCHANGED body
  /\ UNCHANGED <<callVars, domainVars, technicalVars, recorderVars,
                 helperVars, backendVars>>

\* faulty variant: the total area is assigned, not accumulated
TotalDoughWeightByPansStep_AssignsArea ==
  /\ reply = NotReturned
  /\ index <= Len(body.Pans)
  /\ \E item \in {body.Pans[index]} :
       IF item.GetStrategyFails
         THEN /\ lookups' = Append(lookups, Op("GetStrategy", <<index>>))
              /\ reply' = <<NilPans, ErrorsNew("unsupported shape")>>
              /\ UNCHANGED <<index, resultPans>>
         ELSE IF item.CalculateFails
           THEN /\ lookups' = lookups \o <<Op("GetStrategy", <<index>>),
                                           Op("Calculate", <<index>>)>>
                /\ reply' = <<NilPans, ErrorsNew("error processing pan")>>
                /\ UNCHANGED <<index, resultPans>>
           ELSE /\ lookups' = lookups \o <<Op("GetStrategy", <<index>>),
                                           Op("Calculate", <<index>>)>>
                /\ resultPans' =
                     [Pans |-> Append(resultPans.Pans, Calculate(item)),
                      TotalArea |-> Calculate(item).Area]
                /\ index' = index + 1
                /\ UNCHANGED reply
  /\ UNCHANGED body
  /\ UNCHANGED <<callVars, domainVars, technicalVars, recorderVars,
                 helperVars, backendVars>>

\* one iteration of for _, item := range body.Pans: the strategy of the
\* item's shape is looked up and the pan calculated; either failure returns
\* nil and the error at once
TotalDoughWeightByPansStep ==
  /\ reply = NotReturned
  /\ index <= Len(body.Pans)
  /\ \E item \in {body.Pans[index]} :
       IF item.GetStrategyFails
         THEN /\ lookups' = Append(lookups, Op("GetStrategy", <<index>>))
              /\ reply' = <<NilPans, ErrorsNew("unsupported shape")>>
              /\ UNCHANGED <<index, resultPans>>
         ELSE IF item.CalculateFails
           THEN /\ lookups' = lookups \o <<Op("GetStrategy", <<index>>),
                                           Op("Calculate", <<index>>)>>
                /\ reply' = <<NilPans, ErrorsNew("error processing pan")>>
                /\ UNCHANGED <<index, resultPans>>
           ELSE /\ lookups' = lookups \o <<Op("GetStrategy", <<index>>),
                                           Op("Calculate", <<index>>)>>
                /\ resultPans' =
                     [Pans |-> Append(resultPans.Pans, Calculate(item)),
                      TotalArea |->
                        resultPans.TotalArea + Calculate(item).Area]
                /\ index' = index + 1
                /\ UNCHANGED reply
  /\ UNCHANGED body
  /\ UNCHANGED <<callVars, domainVars, technicalVars, recorderVars,
                 helperVars, backendVars>>

\* the loop is over: return &result, nil
TotalDoughWeightByPansReturn ==
  /\ reply = NotReturned
  /\ index > Len(body.Pans)
  /\ reply' = <<AddressOf(resultPans), NoError>>
  /\ UNCHANGED <<body, index, resultPans, lookups>>
  /\ UNCHANGED <<callVars, domainVars, technicalVars, recorderVars,
                 helperVars, backendVars>>

NextService ==
  \/ TotalDoughWeightByPansStep
  \/ TotalDoughWeightByPansReturn

SpecService == InitService /\ [][NextService]_vars

\* ------------------------------------------------------------------------
\* PrometheusMetrics: the operations of the backend, called directly
\* ------------------------------------------------------------------------

\* number of operations invoked on one backend
MaxBackendCalls == 3

BackendTypes == {"dough_calculation", "ingredient_calculation"}

BackendErrorTypes == {"invalid_input", "timeout"}

BackendIngredients == {"flour"}

BackendRecipeTypes == {"sourdough", "pizza"}

BackendMethods == {"CalculateDough", "ValidateIngredients"}

BackendStatuses == {"success", "error"}

\* durations in milliseconds, weights in grams, percentages, gauge counts
BackendDurations == {100}

BackendWeights == {500}

BackendHydrations == {65}

BackendAccuracies == {95}

BackendCounts == {5, 3}

MillisPerSecond == 1000

\* duration.Seconds(): the duration as a fraction of seconds, kept as
\* <<numerator, denominator>>
Seconds(d) == <<d, MillisPerSecond>>

\* the "valid" label value of IncrementIngredientValidations
ValidStr(valid) == IF valid THEN "true" ELSE "false"

\* m.calculationsTotal.WithLabelValues(calculationType).Inc()
IncrementCalculationsTotal(calculationType) ==
  /\ calculationsTotal' = CounterInc(calculationsTotal, calculationType)
  /\ calls' = Append(calls, Op("IncrementCalculationsTotal", <<calculationType>>))
  /\ UNCHANGED <<activeCalculations, calculationDurations, calculationErrors,
                 doughWeights, doughHydrations, doughAccuracies,
                 ingredientValidations, recipeTypes, grpcRequests,
                 grpcDurations, callVars, recorderVars, helperVars, serviceVars>>

\* faulty variant: every duration is observed in one series, whatever the type
RecordCalculationDuration_OneSeries(calculationType, d) ==
  /\ calculationDurations' = HistogramObserve(calculationDurations, "dough_calculation", Seconds(d))
  /\ calls' = Append(calls, Op("RecordCalculationDuration", <<calculationType, d>>))
  /\ UNCHANGED <<activeCalculations, calculationsTotal, calculationErrors,
                 doughWeights, doughHydrations, doughAccuracies,
                 ingredientValidations, recipeTypes, grpcRequests,
                 grpcDurations, callVars, recorderVars, helperVars, serviceVars>>

\* m.calculationDuration.WithLabelValues(calculationType).Observe(duration.Seconds())
RecordCalculationDuration(calculationType, d) ==
  /\ calculationDurations' = HistogramObserve(calculationDurations, calculationType, Seconds(d))
  /\ calls' = Append(calls, Op("RecordCalculationDuration", <<calculationType, d>>))
  /\ UNCHANGED <<activeCalculations, calculationsTotal, calculationErrors,
                 doughWeights, doughHydrations, doughAccuracies,
                 ingredientValidations, recipeTypes, grpcRequests,
                 grpcDurations, callVars, recorderVars, helperVars, serviceVars>>

\* faulty variant: the gauge is moved by count instead of set to it
SetActiveCalculations_Adds(count) ==
  /\ activeCalculations' = activeCalculations + count
  /\ calls' = Append(calls, Op("SetActiveCalculations", <<count>>))
  /\ UNCHANGED <<calculationsTotal, calculationDurations, calculationErrors,
                 doughWeights, doughHydrations, doughAccuracies,
                 ingredientValidations, recipeTypes, grpcRequests,
                 grpcDurations, callVars, recorderVars, helperVars, serviceVars>>

\* m.activeCalculations.Set(float64(count)); the conversion is exact for every count of magnitude at most 2^53
SetActiveCalculations(count) ==
  /\ activeCalculations' = count
  /\ calls' = Append(calls, Op("SetActiveCalculations", <<count>>))
  /\ UNCHANGED <<calculationsTotal, calculationDurations, calculationErrors,
                 doughWeights, doughHydrations, doughAccuracies,
                 ingredientValidations, recipeTypes, grpcRequests,
                 grpcDurations, callVars, recorderVars, helperVars, serviceVars>>

\* m.calculationErrors.WithLabelValues(calculationType, errorType).Inc()
IncrementCalculationErrors(calculationType, errorType) ==
  /\ calculationErrors' = CounterInc(calculationErrors, <<calculationType, errorType>>)
  /\ calls' = Append(calls, Op("IncrementCalculationErrors", <<calculationType, errorType>>))
  /\ UNCHANGED <<activeCalculations, calculationsTotal, calculationDurations,
                 doughWeights, doughHydrations, doughAccuracies,
                 ingredientValidations, recipeTypes, grpcRequests,
                 grpcDurations, callVars, recorderVars, helperVars, serviceVars>>

\* m.doughAccuracy.Observe(accuracy)
RecordDoughAccuracy(accuracy) ==
  /\ doughAccuracies' = Append(doughAccuracies, accuracy)
  /\ calls' = Append(calls, Op("RecordDoughAccuracy", <<accuracy>>))
  /\ UNCHANGED <<activeCalculations, calculationsTotal, calculationDurations,
                 calculationErrors, doughWeights, doughHydrations,
                 ingredientValidations, recipeTypes, grpcRequests,
                 grpcDurations, callVars, recorderVars, helperVars, serviceVars>>

\* faulty variant: the valid label is always "true"
IncrementIngredientValidations_IgnoresValid(ingredient, valid) ==
  /\ ingredientValidations' = CounterInc(ingredientValidations, <<ingredient, "true">>)
  /\ calls' = Append(calls, Op("IncrementIngredientValidations", <<ingredient, ValidStr(valid)>>))
  /\ UNCHANGED <<activeCalculations, calculationsTotal, calculationDurations,
                 calculationErrors, doughWeights, doughHydrations,
                 doughAccuracies, recipeTypes, grpcRequests, grpcDurations,
                 callVars, recorderVars, helperVars, serviceVars>>

\* m.ingredientValidations.WithLabelValues(ingredient, validStr).Inc()
IncrementIngredientValidations(ingredient, valid) ==
  /\ ingredientValidations' = CounterInc(ingredientValidations, <<ingredient, ValidStr(valid)>>)
  /\ calls' = Append(calls, Op("IncrementIngredientValidations", <<ingredient, ValidStr(valid)>>))
  /\ UNCHANGED <<activeCalculations, calculationsTotal, calculationDurations,
                 calculationErrors, doughWeights, doughHydrations,
                 doughAccuracies, recipeTypes, grpcRequests, grpcDurations,
                 callVars, recorderVars, helperVars, serviceVars>>

\* m.doughWeight.Observe(weight)
RecordDoughWeight(weight) ==
  /\ doughWeights' = Append(doughWeights, weight)
  /\ calls' = Append(calls, Op("RecordDoughWeight", <<weight>>))
  /\ UNCHANGED <<activeCalculations, calculationsTotal, calculationDurations,
                 calculationErrors, doughHydrations, doughAccuracies,
                 ingredientValidations, recipeTypes, grpcRequests,
                 grpcDurations, callVars, recorderVars, helperVars, serviceVars>>

\* m.doughHydration.Observe(hydration)
RecordDoughHydration(hydration) ==
  /\ doughHydrations' = Append(doughHydrations, hydration)
  /\ calls' = Append(calls, Op("RecordDoughHydration", <<hydration>>))
  /\ UNCHANGED <<activeCalculations, calculationsTotal, calculationDurations,
                 calculationErrors, doughWeights, doughAccuracies,
                 ingredientValidations, recipeTypes, grpcRequests,
                 grpcDurations, callVars, recorderVars, helperVars, serviceVars>>

\* m.recipeTypes.WithLabelValues(recipeType).Inc()
IncrementRecipeTypes(recipeType) ==
  /\ recipeTypes' = CounterInc(recipeTypes, recipeType)
  /\ calls' = Append(calls, Op("IncrementRecipeTypes", <<recipeType>>))
  /\ UNCHANGED <<activeCalculations, calculationsTotal, calculationDurations,
                 calculationErrors, doughWeights, doughHydrations,
                 doughAccuracies, ingredientValidations, grpcRequests,
                 grpcDurations, callVars, recorderVars, helperVars, serviceVars>>

\* m.grpcRequestsTotal.WithLabelValues(method, status).Inc()
IncrementGRPCRequests(method, statusCode) ==
  /\ grpcRequests' = CounterInc(grpcRequests, <<method, statusCode>>)
  /\ calls' = Append(calls, Op("IncrementGRPCRequests", <<method, statusCode>>))
  /\ UNCHANGED <<activeCalculations, calculationsTotal, calculationDurations,
                 calculationErrors, doughWeights, doughHydrations,
                 doughAccuracies, ingredientValidations, recipeTypes,
                 grpcDurations, callVars, recorderVars, helperVars, serviceVars>>

\* m.grpcRequestDuration.WithLabelValues(method).Observe(duration.Seconds())
RecordGRPCDuration(method, d) ==
  /\ grpcDurations' = HistogramObserve(grpcDurations, method, Seconds(d))
  /\ calls' = Append(calls, Op("RecordGRPCDuration", <<method, d>>))
  /\ UNCHANGED <<activeCalculations, calculationsTotal, calculationDurations,
                 calculationErrors, doughWeights, doughHydrations,
                 doughAccuracies, ingredientValidations, recipeTypes,
                 grpcRequests, callVars, recorderVars, helperVars, serviceVars>>

NextPrometheus ==
  /\ Len(calls) < MaxBackendCalls
  /\ \/ \E t \in BackendTypes : IncrementCalculationsTotal(t)
     \/ \E t \in BackendTypes, d \in BackendDurations :
          RecordCalculationDuration(t, d)
     \/ \E count \in BackendCounts : SetActiveCalculations(count)
     \/ \E t \in BackendTypes, e \in BackendErrorTypes :
          IncrementCalculationErrors(t, e)
     \/ \E a \in BackendAccuracies : RecordDoughAccuracy(a)
     \/ \E i \in BackendIngredients, valid \in BOOLEAN :
          IncrementIngredientValidations(i, valid)
     \/ \E w \in BackendWeights : RecordDoughWeight(w)
     \/ \E h \in BackendHydrations : RecordDoughHydration(h)
     \/ \E r \in BackendRecipeTypes : IncrementRecipeTypes(r)
     \/ \E m \in BackendMethods, st \in BackendStatuses :
          IncrementGRPCRequests(m, st)
     \/ \E m \in BackendMethods, d \in BackendDurations :
          RecordGRPCDuration(m, d)

SpecPrometheus == Init /\ [][NextPrometheus]_vars

\* ------------------------------------------------------------------------
\* Vocabulary of the properties
\* ------------------------------------------------------------------------

\* the three business addresses
BusinessAddresses ==
  {AddrCalculateDough, AddrCalculateIngredients, AddrOptimizeRecipe}

Started(c) == pc[c] # "idle"

Business(c) == Started(c) /\ fullMethod[c] \in BusinessAddresses

\* positions of the sink operation called name in the trace of call c
OpsOf(c, name) == {i \in 1..Len(trace[c]) : trace[c][i].op = name}

\* a business call that has made its entry gauge write and not its exit one
InsideWrapper(c) ==
  /\ Business(c)
  /\ pc[c] \in {"handler", "tech_counter", "tech_duration", "exit_gauge",
                "panicked"}

DomainOps ==
  {"SetActiveCalculations", "IncrementCalculationsTotal",
   "RecordCalculationDuration", "IncrementCalculationErrors",
   "RecordDoughAccuracy", "IncrementIngredientValidations",
   "RecordDoughWeight", "RecordDoughHydration", "IncrementRecipeTypes"}

QualityOps ==
  {"RecordDoughAccuracy", "RecordDoughWeight", "RecordDoughHydration"}

\* the type label the source's table gives each business address
TypeLabelOf(addr) ==
  CASE addr = AddrCalculateDough -> "dough_calculation"
    [] addr = AddrCalculateIngredients -> "ingredient_calculation"
    [] addr = AddrOptimizeRecipe -> "recipe_optimization"

\* ------------------------------------------------------------------------
\* Properties
\* ------------------------------------------------------------------------

\* C1: under every interleaving of concurrent business calls, the in-flight
\* gauge is never negative.
C1_GaugeNeverNegative == activeCalculations >= 0

\* C2: once every call that entered the interceptor has completed, the
\* in-flight gauge is back at the value it had before the first call (0).
C2_GaugeRestoredWhenQuiescent ==
  (/\ \A c \in Calls : pc[c] \in {"idle", "done"}
   /\ \E c \in Calls : pc[c] = "done" /\ Business(c))
    => activeCalculations = 0

\* C3: the in-flight gauge equals the number of business calls that have
\* made their entry gauge write and not yet their exit gauge write.
C3_GaugeCountsCallsInside ==
  activeCalculations = Cardinality({c \in Calls : InsideWrapper(c)})

\* C4: a business call whose handler panics still performs the exit gauge
\* write paired with its entry gauge write.
C4_PanicStillWritesExitGauge ==
  \A c \in Calls :
    (pc[c] = "panicked" /\ Business(c))
      => Cardinality(OpsOf(c, "SetActiveCalculations")) = 2

\* C5: the interceptor returns exactly the pair the handler returned, for
\* every address and outcome, and never an error of its own.
C5_ReturnsHandlerPair ==
  \A c \in Calls :
    /\ pc[c] = "done" =>
         /\ ret[c] = <<resp[c], err[c]>>
         /\ (ret[c][2] = NoError) <=> (err[c] = NoError)
         /\ Cardinality(OpsOf(c, "handler")) = 1
    /\ pc[c] # "done" => ret[c] = NotReturned

C5_Witness ==
  \E c, d \in Calls :
    /\ pc[c] = "done" /\ Business(c)
    /\ ret[c] = <<"partial response", GenericError>>
    /\ pc[d] = "done" /\ ~Business(d)
    /\ ret[d] = <<"success response", NoError>>

\* C6: every unary call whose handler returned makes exactly one technical
\* request-counter increment keyed by (method name, status label) and
\* exactly one technical duration observation keyed by method name.
C6_ExactlyOneTechnicalRecord ==
  /\ \A c \in Calls :
       LET counts == OpsOf(c, "IncrementGRPCRequests")
           observations == OpsOf(c, "RecordGRPCDuration")
           key == <<extractMethodName(fullMethod[c]), getStatusCode(err[c])>>
       IN  /\ Cardinality(counts) <= 1
           /\ Cardinality(observations) <= 1
           /\ pc[c] = "done" =>
                /\ Cardinality(counts) = 1
                /\ Cardinality(observations) = 1
           /\ \A i \in counts :
                /\ trace[c][i].args = key
                /\ fullMethod[c] = AddrInvalidMethod =>
                     trace[c][i].args[1] = LabelUnknown
                /\ fullMethod[c] = AddrGetHealth =>
                     trace[c][i].args[1] =
                       <<"G", "e", "t", "H", "e", "a", "l", "t", "h">>
           /\ \A i \in observations :
                trace[c][i].args = <<key[1], duration[c]>>
  /\ \A k \in DOMAIN grpcRequests :
       grpcRequests[k] =
         Cardinality({c \in Calls :
           \E i \in OpsOf(c, "IncrementGRPCRequests") :
             trace[c][i].args = k})
  /\ \A m \in DOMAIN grpcDurations :
       Len(grpcDurations[m]) =
         Cardinality({c \in Calls :
           \E i \in OpsOf(c, "RecordGRPCDuration") :
             trace[c][i].args[1] = m})

C6_Witness ==
  \E c, d \in Calls :
    /\ pc[c] = "done" /\ fullMethod[c] = AddrInvalidMethod
    /\ err[c] = StatusError("InvalidArgument")
    /\ CounterGet(grpcRequests, <<LabelUnknown, "invalid_argument">>) = 1
    /\ pc[d] = "done" /\ fullMethod[d] = AddrCalculateDough
    /\ err[d] = NoError
    /\ Len(HistogramGet(grpcDurations, extractMethodName(fullMethod[d]))) = 1

\* C7: a unary call whose address is not one of the three business
\* addresses invokes no operation of the domain sink and produces exactly
\* one technical record.
C7_NonBusinessTouchesNoDomainSink ==
  /\ \A c \in Calls :
       (Started(c) /\ fullMethod[c] \notin BusinessAddresses) =>
         /\ \A i \in 1..Len(trace[c]) : trace[c][i].op \notin DomainOps
         /\ pc[c] = "done" =>
              /\ Cardinality(OpsOf(c, "IncrementGRPCRequests")) = 1
              /\ Cardinality(OpsOf(c, "RecordGRPCDuration")) = 1
  /\ (\A c \in Calls : ~Business(c)) =>
       /\ activeCalculations = 0
       /\ calculationsTotal = EmptyMap
       /\ calculationDurations = EmptyMap
       /\ calculationErrors = EmptyMap
       /\ doughWeights = << >>
       /\ doughHydrations = << >>
       /\ doughAccuracies = << >>
       /\ ingredientValidations = EmptyMap
       /\ recipeTypes = EmptyMap

C7_Witness ==
  /\ \A c \in Calls : pc[c] = "done" /\ ~Business(c)
  /\ \E c \in Calls : fullMethod[c] = AddrGetHealth /\ err[c] = NoError
  /\ \E c \in Calls : fullMethod[c] = AddrInvalidMethod /\ err[c] # NoError

\* C8: a business call whose handler returned without error raises the
\* total-count of its calculation type by exactly 1, adds exactly one
\* calculation-duration observation for that type, and changes no
\* calculation-error counter.
C8_SuccessCountsOnce ==
  /\ \A c \in Calls :
       (pc[c] = "done" /\ Business(c) /\ err[c] = NoError) =>
         LET type == TypeLabelOf(fullMethod[c])
         IN  /\ Cardinality(OpsOf(c, "IncrementCalculationsTotal")) = 1
             /\ \A i \in OpsOf(c, "IncrementCalculationsTotal") :
                  trace[c][i].args = <<type>>
             /\ Cardinality(OpsOf(c, "RecordCalculationDuration")) = 1
             /\ \A i \in OpsOf(c, "RecordCalculationDuration") :
                  trace[c][i].args = <<type, duration[c]>>
             /\ OpsOf(c, "IncrementCalculationErrors") = {}
  /\ (\A c \in Calls : Started(c) => (pc[c] = "done" /\ err[c] = NoError)) =>
       /\ calculationErrors = EmptyMap
       /\ \A a \in BusinessAddresses :
            LET n == Cardinality({c \in Calls :
                       Started(c) /\ fullMethod[c] = a})
            IN  /\ CounterGet(calculationsTotal, TypeLabelOf(a)) = n
                /\ Len(HistogramGet(calculationDurations, TypeLabelOf(a)))
                     = n

C8_Witness ==
  /\ \A c \in Calls : pc[c] = "done" /\ err[c] = NoError
  /\ \E c \in Calls : fullMethod[c] = AddrCalculateDough
  /\ \E c \in Calls : fullMethod[c] = AddrCalculateIngredients
  /\ CounterGet(calculationsTotal, "dough_calculation") = 1
  /\ Len(HistogramGet(calculationDurations, "ingredient_calculation")) = 1

\* C9: a business call whose handler returned an error raises the error
\* counter keyed by (calculation type, error kind) by exactly 1, changes no
\* other error counter, and makes no weight, hydration or accuracy
\* observation.
C9_FailureCountsOneError ==
  /\ \A c \in Calls :
       (pc[c] = "done" /\ Business(c) /\ err[c] # NoError) =>
         LET type == TypeLabelOf(fullMethod[c])
             kind == IF err[c] = StatusError("InvalidArgument")
                       THEN "invalid_input"
                       ELSE "unknown_error"
         IN  /\ Cardinality(OpsOf(c, "IncrementCalculationErrors")) = 1
             /\ \A i \in OpsOf(c, "IncrementCalculationErrors") :
                  trace[c][i].args = <<type, kind>>
             /\ \A i \in 1..Len(trace[c]) : trace[c][i].op \notin QualityOps
  /\ \A k \in DOMAIN calculationErrors :
       calculationErrors[k] =
         Cardinality({c \in Calls :
           /\ pc[c] = "done" /\ Business(c) /\ err[c] # NoError
           /\ k = <<TypeLabelOf(fullMethod[c]), getErrorType(err[c])>>})
  /\ doughWeights = << >>
  /\ doughHydrations = << >>
  /\ doughAccuracies = << >>

C9_Witness ==
  \E c, d \in Calls :
    /\ pc[c] = "done" /\ fullMethod[c] = AddrCalculateDough
    /\ err[c] = StatusError("InvalidArgument")
    /\ CounterGet(calculationErrors,
                  <<"dough_calculation", "invalid_input">>) = 1
    /\ pc[d] = "done" /\ fullMethod[d] = AddrCalculateIngredients
    /\ err[d] = GenericError
    /\ CounterGet(calculationErrors,
                  <<"ingredient_calculation", "unknown_error">>) = 1

\* C10 (as stated): every completed business call, whether its handler
\* succeeded or failed, records exactly one total-count increment and
\* exactly one calculation-duration observation for its type.
C10_EveryOutcomeCountedOnce ==
  \A c \in Calls :
    (pc[c] = "done" /\ Business(c)) =>
      /\ Cardinality(OpsOf(c, "IncrementCalculationsTotal")) = 1
      /\ Cardinality(OpsOf(c, "RecordCalculationDuration")) = 1

\* C10 (amended): a completed business call records exactly one total-count
\* increment and one calculation-duration observation for its type when
\* its handler succeeded, and neither of them when its handler failed; the
\* total-count of a type equals its number of duration observations once no
\* success is between the two writes.
C10_OnlySuccessCounted ==
  /\ \A c \in Calls :
       (pc[c] = "done" /\ Business(c)) =>
         LET n == IF err[c] = NoError THEN 1 ELSE 0
         IN  /\ Cardinality(OpsOf(c, "IncrementCalculationsTotal")) = n
             /\ Cardinality(OpsOf(c, "RecordCalculationDuration")) = n
  /\ \A a \in BusinessAddresses :
       LET type == TypeLabelOf(a)
       IN  /\ CounterGet(calculationsTotal, type) =
                Cardinality({c \in Calls :
                  /\ fullMethod[c] = a /\ err[c] = NoError
                  /\ pc[c] \in {"domain_duration", "done"}})
           /\ Len(HistogramGet(calculationDurations, type)) =
                Cardinality({c \in Calls :
                  fullMethod[c] = a /\ err[c] = NoError /\ pc[c] = "done"})

C10_Witness ==
  \E c, d \in Calls :
    /\ pc[c] = "done" /\ fullMethod[c] = AddrCalculateDough
    /\ err[c] = NoError
    /\ pc[d] = "done" /\ fullMethod[d] = AddrCalculateDough
    /\ err[d] # NoError
    /\ CounterGet(calculationsTotal, "dough_calculation") = 1

\* C11: a business call through the unary interceptor whose handler
\* returned an error does not increment the total-count of its calculation
\* type; on a fresh sink the counter stays 0.
C11_FailureLeavesTotalUntouched ==
  /\ \A c \in Calls :
       (Business(c) /\ err[c] # NoError) =>
         OpsOf(c, "IncrementCalculationsTotal") = {}
  /\ \A a \in BusinessAddresses :
       (\A c \in Calls :
          (fullMethod[c] = a /\ pc[c] \in {"domain_duration", "done"})
            => err[c] # NoError)
         => CounterGet(calculationsTotal, TypeLabelOf(a)) = 0

C11_Witness ==
  \E c \in Calls :
    /\ pc[c] = "done" /\ fullMethod[c] = AddrCalculateDough
    /\ err[c] = StatusError("InvalidArgument")
    /\ CounterGet(calculationErrors,
                  <<"dough_calculation", "invalid_input">>) = 1
    /\ CounterGet(calculationsTotal, "dough_calculation") = 0

\* ------------------------------------------------------------------------
\* Properties of the recorder
\* ------------------------------------------------------------------------

\* the result handed to the RecordCalculation call that just completed
LastResult == results'[Len(results')]

\* a RecordCalculation call has just completed
Recorded == results' # results

ResultErrorKeys == ResultTypes \X (ResultErrorTypes \cup {""})

IngredientNames == {"flour", "water", "salt"}

\* number of entries of the list equal to name
Occurrences(name, list) ==
  Cardinality({i \in 1..Len(list) : list[i] = name})

\* C12: RecordCalculation, whatever the Success flag, raises the
\* total-count of result.Type by exactly 1 and records exactly one duration
\* observation for result.Type, of value result.Duration.
C12_AlwaysCountsAndTimes ==
  [][Recorded =>
       /\ DOMAIN calculationsTotal' \subseteq ResultTypes
       /\ DOMAIN calculationDurations' \subseteq ResultTypes
       /\ \A t \in ResultTypes :
            /\ CounterGet(calculationsTotal', t) =
                 CounterGet(calculationsTotal, t)
                   + (IF t = LastResult.Type THEN 1 ELSE 0)
            /\ HistogramGet(calculationDurations', t) =
                 IF t = LastResult.Type
                   THEN HistogramGet(calculationDurations, t)
                          \o <<LastResult.Duration>>
                   ELSE HistogramGet(calculationDurations, t)]_vars

C12_Witness ==
  \E i \in 1..Len(results) :
    /\ ~results[i].Success
    /\ results[i].Type = "ingredient_calculation"
    /\ results[i].Duration = 80
    /\ CounterGet(calculationsTotal, "ingredient_calculation") = 1
    /\ HistogramGet(calculationDurations, "ingredient_calculation") = <<80>>

\* C13: with Success=false RecordCalculation raises the error counter of
\* (result.Type, result.ErrorType) by exactly 1 and makes no weight,
\* hydration, accuracy or ingredient update whatever those fields hold;
\* with Success=true it changes no error counter.
C13_FailureRecordsOnlyTheError ==
  [][Recorded =>
       /\ DOMAIN calculationErrors' \subseteq ResultErrorKeys
       /\ \A k \in ResultErrorKeys :
            CounterGet(calculationErrors', k) =
              CounterGet(calculationErrors, k)
                + (IF /\ ~LastResult.Success
                      /\ k = <<LastResult.Type, LastResult.ErrorType>>
                     THEN 1 ELSE 0)
       /\ ~LastResult.Success =>
            /\ doughWeights' = doughWeights
            /\ doughHydrations' = doughHydrations
            /\ doughAccuracies' = doughAccuracies
            /\ ingredientValidations' = ingredientValidations]_vars

C13_Witness ==
  \E i \in 1..Len(results) :
    /\ ~results[i].Success
    /\ results[i].Type = "dough_calculation"
    /\ results[i].ErrorType = "timeout"
    /\ results[i].Weight = 500
    /\ results[i].Hydration = 65
    /\ results[i].Accuracy = 95
    /\ results[i].IngredientsUsed = <<"flour", "water", "flour">>
    /\ CounterGet(calculationErrors, <<"dough_calculation", "timeout">>) = 1
    /\ doughWeights = << >>
    /\ doughHydrations = << >>
    /\ doughAccuracies = << >>
    /\ ingredientValidations = EmptyMap

\* C14: with Success=true, weight, hydration and accuracy are recorded
\* independently: each adds one observation of its own value to its own
\* histogram if and only if it is strictly greater than zero.
C14_QualityFieldsIndependent ==
  [][(Recorded /\ LastResult.Success) =>
       /\ doughWeights' =
            IF LastResult.Weight > 0
              THEN doughWeights \o <<LastResult.Weight>>
              ELSE doughWeights
       /\ doughHydrations' =
            IF LastResult.Hydration > 0
              THEN doughHydrations \o <<LastResult.Hydration>>
              ELSE doughHydrations
       /\ doughAccuracies' =
            IF LastResult.Accuracy > 0
              THEN doughAccuracies \o <<LastResult.Accuracy>>
              ELSE doughAccuracies]_vars

C14_Witness ==
  /\ Len(results) = 1
  /\ results[1].Success
  /\ results[1].Weight = 0
  /\ results[1].Hydration = 65
  /\ results[1].Accuracy = 0
  /\ results[1].IngredientsUsed = <<"flour">>
  /\ doughWeights = << >>
  /\ doughHydrations = <<65>>
  /\ doughAccuracies = << >>
  /\ CounterGet(ingredientValidations, <<"flour", TRUE>>) = 1

\* C15: with Success=true the valid=true counter of an ingredient is raised
\* once for every entry of IngredientsUsed naming it (k entries, k
\* increments); no valid=false counter is raised on any path.
C15_IngredientsCountedPerEntry ==
  [][Recorded =>
       /\ \A name \in IngredientNames :
            /\ CounterGet(ingredientValidations', <<name, FALSE>>) = 0
            /\ LastResult.Success =>
                 CounterGet(ingredientValidations', <<name, TRUE>>) =
                   CounterGet(ingredientValidations, <<name, TRUE>>)
                     + Occurrences(name, LastResult.IngredientsUsed)
       /\ \A k \in DOMAIN ingredientValidations' :
            k[1] \in IngredientNames /\ k[2] = TRUE]_vars

C15_Witness ==
  \E i \in 1..Len(results) :
    /\ results[i].Success
    /\ results[i].IngredientsUsed = <<"flour", "water", "flour">>
    /\ CounterGet(ingredientValidations, <<"flour", TRUE>>) = 2
    /\ CounterGet(ingredientValidations, <<"water", TRUE>>) = 1
    /\ CounterGet(ingredientValidations, <<"flour", FALSE>>) = 0

\* the Weight values of the successful results with Weight > 0, in order
RECURSIVE WeightsOf(_)
WeightsOf(rs) ==
  IF rs = << >>
    THEN << >>
    ELSE (IF Head(rs).Success /\ Head(rs).Weight > 0
            THEN <<Head(rs).Weight>> ELSE << >>)
           \o WeightsOf(Tail(rs))

\* C16: after any sequence of RecordCalculation calls, per type the
\* total-count equals the number of calls of that type and the number of
\* duration observations; per (type, error kind) the error count equals the
\* number of failed calls with that key; the weight observations are the
\* weights of the successful calls with Weight > 0, in call order.
C16_AggregatesMatchTheCalls ==
  /\ \A t \in ResultTypes :
       LET n == Cardinality({i \in 1..Len(results) : results[i].Type = t})
       IN  /\ CounterGet(calculationsTotal, t) = n
           /\ Len(HistogramGet(calculationDurations, t)) = n
  /\ \A k \in ResultErrorKeys :
       CounterGet(calculationErrors, k) =
         Cardinality({i \in 1..Len(results) :
           /\ ~results[i].Success
           /\ <<results[i].Type, results[i].ErrorType>> = k})
  /\ doughWeights = WeightsOf(results)

C16_Witness ==
  /\ Len(results) = 3
  /\ \A i \in 1..3 : results[i].Type = "dough_calculation"
  /\ results[1].Success /\ results[1].Weight = 500
  /\ results[2].Success /\ results[2].Weight = 750
  /\ ~results[3].Success /\ results[3].ErrorType = "invalid_input"
  /\ CounterGet(calculationsTotal, "dough_calculation") = 3
  /\ Len(HistogramGet(calculationDurations, "dough_calculation")) = 3
  /\ doughWeights = <<500, 750>>
  /\ CounterGet(calculationErrors,
                <<"dough_calculation", "invalid_input">>) = 1

\* ------------------------------------------------------------------------
\* Properties of the helper functions
\* ------------------------------------------------------------------------

\* C17: isCalculationMethod(address) is true if and only if address is
\* exactly one of the three business addresses; the same method under
\* another service and another method under the same service are not
\* business.
C17_BusinessIffExactAddress ==
  applied = "isCalculationMethod" =>
    /\ output = (argAddress \in BusinessAddresses)
    /\ argAddress \in {AddrOtherService, AddrGetHealth, AddrUnknownMethod}
         => output = FALSE

C17_Witness ==
  /\ applied = "isCalculationMethod"
  /\ argAddress = AddrOtherService
  /\ output = FALSE

\* C18: getCalculationType maps the three business addresses to
\* "dough_calculation", "ingredient_calculation" and "recipe_optimization"
\* and every other string to "unknown_calculation".
C18_TypeLabelTable ==
  applied = "getCalculationType" =>
    /\ argAddress = AddrCalculateDough => output = "dough_calculation"
    /\ argAddress = AddrCalculateIngredients =>
         output = "ingredient_calculation"
    /\ argAddress = AddrOptimizeRecipe => output = "recipe_optimization"
    /\ argAddress \notin BusinessAddresses => output = "unknown_calculation"

C18_Witness ==
  /\ applied = "getCalculationType"
  /\ argAddress = AddrOtherService
  /\ output = "unknown_calculation"

\* index of the last '/' of an address that has one
LastSlash(a) ==
  CHOOSE i \in 1..Len(a) :
    a[i] = "/" /\ \A j \in (i + 1)..Len(a) : a[j] # "/"

\* the text between the leading '/' and the last '/'
ServicePath(a) == SubSeq(a, 2, LastSlash(a) - 1)

\* number of non-empty dot-separated segments: the maximal runs of
\* characters other than '.'
NonEmptySegments(s) ==
  Cardinality({i \in 1..Len(s) :
    s[i] # "." /\ (i = 1 \/ s[i - 1] = ".")})

\* the addresses the parser must reject
Unparseable(a) ==
  \/ Len(a) = 0
  \/ a[1] # "/"
  \/ \A i \in 2..Len(a) : a[i] # "/"
  \/ NonEmptySegments(ServicePath(a)) < 2

\* C19: extractMethodName returns a label for every input string, and the
\* label is "unknown" whenever the input is empty, lacks a leading '/', has
\* no '/' after the leading one, or has a service path with fewer than two
\* non-empty dot-separated segments.
C19_UnparseableIsUnknown ==
  applied = "extractMethodName" =>
    /\ \/ output = LabelUnknown
       \/ \E i \in 1..Len(argAddress) :
            /\ argAddress[i] = "/"
            /\ output = SubSeq(argAddress, i + 1, Len(argAddress))
    /\ Unparseable(argAddress) => output = LabelUnknown

C19_Witness ==
  /\ applied = "extractMethodName"
  /\ argAddress = <<"/", ".", "a", "/", "a">>
  /\ output = LabelUnknown

\* C20 (as stated): getStatusCode returns "success" for a nil error, the
\* four specific labels for InvalidArgument, NotFound, Internal and
\* Unavailable, and "error" for every other error.
C20_StatusLabelsAsStated ==
  applied = "getStatusCode" =>
    output =
      IF argError = NoError THEN "success"
      ELSE IF argError = StatusError("InvalidArgument")
        THEN "invalid_argument"
      ELSE IF argError = StatusError("NotFound") THEN "not_found"
      ELSE IF argError = StatusError("Internal") THEN "internal_error"
      ELSE IF argError = StatusError("Unavailable") THEN "unavailable"
      ELSE "error"

\* C20 (amended): as stated, except that an error whose status carries the
\* code OK is labelled "success" as well.
C20_StatusLabels ==
  applied = "getStatusCode" =>
    output =
      IF argError = NoError THEN "success"
      ELSE IF argError = StatusError("OK") THEN "success"
      ELSE IF argError = StatusError("InvalidArgument")
        THEN "invalid_argument"
      ELSE IF argError = StatusError("NotFound") THEN "not_found"
      ELSE IF argError = StatusError("Internal") THEN "internal_error"
      ELSE IF argError = StatusError("Unavailable") THEN "unavailable"
      ELSE "error"

C20_Witness ==
  /\ applied = "getStatusCode"
  /\ argError = StatusError("DeadlineExceeded")
  /\ output = "error"

\* C21: getErrorType labels the status codes InvalidArgument, NotFound,
\* Internal, Unavailable and DeadlineExceeded "invalid_input",
\* "recipe_not_found", "calculation_error", "service_unavailable" and
\* "timeout"; every other status code and every error without a structured
\* status is "unknown_error"; "timeout" comes from DeadlineExceeded only, a
\* code that getStatusCode labels "error".
C21_ErrorTypeLabels ==
  /\ applied = "getErrorType" =>
       /\ output =
            IF argError = StatusError("InvalidArgument") THEN "invalid_input"
            ELSE IF argError = StatusError("NotFound") THEN "recipe_not_found"
            ELSE IF argError = StatusError("Internal") THEN "calculation_error"
            ELSE IF argError = StatusError("Unavailable")
              THEN "service_unavailable"
            ELSE IF argError = StatusError("DeadlineExceeded") THEN "timeout"
            ELSE "unknown_error"
       /\ output = "timeout" => argError = StatusError("DeadlineExceeded")
       /\ argError = GenericError => output = "unknown_error"
  /\ (applied = "getStatusCode" /\ argError = StatusError("DeadlineExceeded"))
       => output = "error"

C21_Witness ==
  /\ applied = "getErrorType"
  /\ argError = StatusError("DeadlineExceeded")
  /\ output = "timeout"

\* C22: the stream interceptor, for every address (the business ones
\* included) and every handler outcome, invokes no domain-sink operation,
\* records exactly one technical count and one technical duration, both after
\* the stream handler has returned, and returns the handler's error unchanged.
C22_StreamIsTechnicalOnly ==
  /\ activeCalculations = 0
  /\ calculationsTotal = EmptyMap
  /\ calculationDurations = EmptyMap
  /\ calculationErrors = EmptyMap
  /\ doughWeights = << >> /\ doughHydrations = << >>
  /\ doughAccuracies = << >>
  /\ ingredientValidations = EmptyMap
  /\ recipeTypes = EmptyMap
  /\ \A c \in Calls :
       LET counts == OpsOf(c, "IncrementGRPCRequests")
           observations == OpsOf(c, "RecordGRPCDuration")
           returned == OpsOf(c, "handler")
       IN  /\ \A i \in 1..Len(trace[c]) : trace[c][i].op \notin DomainOps
           /\ Cardinality(counts) <= 1
           /\ Cardinality(observations) <= 1
           /\ \A i \in counts \cup observations :
                \E h \in returned : h < i
           /\ \A i \in counts :
                trace[c][i].args[2] = getStatusCode(err[c])
           /\ pc[c] = "done" =>
                /\ Cardinality(counts) = 1
                /\ Cardinality(observations) = 1
                /\ ret[c] = <<err[c]>>

C22_Witness ==
  \E c \in Calls :
    /\ pc[c] = "done"
    /\ fullMethod[c] = AddrCalculateDough
    /\ err[c] = StatusError("InvalidArgument")
    /\ ret[c] = <<StatusError("InvalidArgument")>>
    /\ grpcRequests # EmptyMap

\* C23: when a sink operation invoked by the interceptor panics, the caller
\* still receives the handler's own response and error, on the success and
\* on the failure path alike.
C23_SinkFailureInvisible ==
  \A c \in Calls :
    (pc[c] \in {"done", "sink_panicked"} /\ OpsOf(c, "handler") # {})
      => /\ pc[c] = "done"
         /\ ret[c] = <<resp[c], err[c]>>

\* the operation invoked on the backend by the step just taken
LastCall == calls'[Len(calls')]

Called == calls' # calls

\* number of calls of operation name in log whose arguments are args
CallsWith(log, name, args) ==
  Cardinality({i \in 1..Len(log) : log[i].op = name /\ log[i].args = args})

\* number of calls of operation name in log whose first argument is label
CallsLabelled(log, name, label) ==
  Cardinality({i \in 1..Len(log) :
                 log[i].op = name /\ log[i].args[1] = label})

\* number of calls of operation name in log
CallsOf(log, name) ==
  Cardinality({i \in 1..Len(log) : log[i].op = name})

\* series k of counter after is one above its value in before, every other
\* series is as it was
OneSeriesRaised(before, after, k) ==
  /\ DOMAIN after = DOMAIN before \cup {k}
  /\ after[k] = CounterGet(before, k) + 1
  /\ \A x \in DOMAIN before \ {k} : after[x] = before[x]

\* no series of the counter was removed or lowered
NothingLowered(before, after) ==
  \A x \in DOMAIN before : x \in DOMAIN after /\ after[x] >= before[x]

\* C24: every counter series of the Prometheus backend is addressed by its
\* full label tuple and is independent: an Increment* call raises exactly the
\* series of its own label tuple by 1 (valid=true and valid=false of one
\* ingredient being distinct series) and leaves every other series unchanged;
\* after any sequence of calls each series equals the number of calls made
\* with its tuple; no series decreases and none is removed.
C24_CounterSeriesIndependent ==
  [][Called =>
       /\ IF LastCall.op = "IncrementCalculationsTotal"
            THEN OneSeriesRaised(calculationsTotal, calculationsTotal',
                                 LastCall.args[1])
            ELSE calculationsTotal' = calculationsTotal
       /\ IF LastCall.op = "IncrementCalculationErrors"
            THEN OneSeriesRaised(calculationErrors, calculationErrors',
                                 LastCall.args)
            ELSE calculationErrors' = calculationErrors
       /\ IF LastCall.op = "IncrementIngredientValidations"
            THEN OneSeriesRaised(ingredientValidations,
                                 ingredientValidations', LastCall.args)
            ELSE ingredientValidations' = ingredientValidations
       /\ IF LastCall.op = "IncrementRecipeTypes"
            THEN OneSeriesRaised(recipeTypes, recipeTypes', LastCall.args[1])
            ELSE recipeTypes' = recipeTypes
       /\ IF LastCall.op = "IncrementGRPCRequests"
            THEN OneSeriesRaised(grpcRequests, grpcRequests', LastCall.args)
            ELSE grpcRequests' = grpcRequests
       /\ NothingLowered(calculationsTotal, calculationsTotal')
       /\ NothingLowered(calculationErrors, calculationErrors')
       /\ NothingLowered(ingredientValidations, ingredientValidations')
       /\ NothingLowered(recipeTypes, recipeTypes')
       /\ NothingLowered(grpcRequests, grpcRequests')
       /\ \A t \in BackendTypes :
            CounterGet(calculationsTotal', t) =
              CallsWith(calls', "IncrementCalculationsTotal", <<t>>)
       /\ \A t \in BackendTypes, e \in BackendErrorTypes :
            CounterGet(calculationErrors', <<t, e>>) =
              CallsWith(calls', "IncrementCalculationErrors", <<t, e>>)
       /\ \A i \in BackendIngredients, v \in {"true", "false"} :
            CounterGet(ingredientValidations', <<i, v>>) =
              CallsWith(calls', "IncrementIngredientValidations", <<i, v>>)
       /\ \A r \in BackendRecipeTypes :
            CounterGet(recipeTypes', r) =
              CallsWith(calls', "IncrementRecipeTypes", <<r>>)
       /\ \A m \in BackendMethods, st \in BackendStatuses :
            CounterGet(grpcRequests', <<m, st>>) =
              CallsWith(calls', "IncrementGRPCRequests", <<m, st>>)
  ]_vars

C24_Witness ==
  /\ CounterGet(ingredientValidations, <<"flour", "true">>) = 2
  /\ CounterGet(ingredientValidations, <<"flour", "false">>) = 1
  /\ Len(calls) = 3

\* C25: SetActiveCalculations overwrites the gauge: after any sequence of
\* calls the gauge is the argument of the most recent SetActiveCalculations
\* (set 5 then set 3 leaves 3), whatever the earlier values were.
C25_GaugeIsLastArgument ==
  LET sets == {i \in 1..Len(calls) : calls[i].op = "SetActiveCalculations"}
  IN  IF sets = {}
        THEN activeCalculations = 0
        ELSE LET last == CHOOSE i \in sets : \A j \in sets : j <= i
             IN  activeCalculations = calls[last].args[1]

C25_Witness ==
  /\ Len(calls) = 2
  /\ calls[1].op = "SetActiveCalculations" /\ calls[1].args = <<5>>
  /\ calls[2].op = "SetActiveCalculations" /\ calls[2].args = <<3>>
  /\ activeCalculations = 3

\* C26: every Record* call of the Prometheus backend adds exactly one
\* observation to the histogram it addresses (the series of the given type
\* or method for the labelled ones) and changes the observation count of no
\* other histogram; after n Record calls on one series its count is n.
C26_OneObservationPerRecord ==
  [][Called =>
       /\ \A t \in BackendTypes :
            /\ Len(HistogramGet(calculationDurations', t)) =
                 Len(HistogramGet(calculationDurations, t))
                   + (IF /\ LastCall.op = "RecordCalculationDuration"
                         /\ LastCall.args[1] = t
                        THEN 1 ELSE 0)
            /\ Len(HistogramGet(calculationDurations', t)) =
                 CallsLabelled(calls', "RecordCalculationDuration", t)
       /\ \A m \in BackendMethods :
            /\ Len(HistogramGet(grpcDurations', m)) =
                 Len(HistogramGet(grpcDurations, m))
                   + (IF /\ LastCall.op = "RecordGRPCDuration"
                         /\ LastCall.args[1] = m
                        THEN 1 ELSE 0)
            /\ Len(HistogramGet(grpcDurations', m)) =
                 CallsLabelled(calls', "RecordGRPCDuration", m)
       /\ DOMAIN calculationDurations' \subseteq BackendTypes
       /\ DOMAIN grpcDurations' \subseteq BackendMethods
       /\ Len(doughWeights') =
            Len(doughWeights)
              + (IF LastCall.op = "RecordDoughWeight" THEN 1 ELSE 0)
       /\ Len(doughWeights') = CallsOf(calls', "RecordDoughWeight")
       /\ Len(doughHydrations') =
            Len(doughHydrations)
              + (IF LastCall.op = "RecordDoughHydration" THEN 1 ELSE 0)
       /\ Len(doughHydrations') = CallsOf(calls', "RecordDoughHydration")
       /\ Len(doughAccuracies') =
            Len(doughAccuracies)
              + (IF LastCall.op = "RecordDoughAccuracy" THEN 1 ELSE 0)
       /\ Len(doughAccuracies') = CallsOf(calls', "RecordDoughAccuracy")
  ]_vars

C26_Witness ==
  /\ Len(HistogramGet(calculationDurations, "dough_calculation")) = 2
  /\ Len(doughWeights) = 1
  /\ Len(calls) = 3

\* the names of the operations call c has invoked, in order
OpNames(c) == [i \in 1..Len(trace[c]) |-> trace[c][i].op]

IsPrefix(s, t) ==
  /\ Len(s) <= Len(t)
  /\ \A i \in 1..Len(s) : s[i] = t[i]

\* the steps of a call that is not a calculation method
TechnicalOrder == <<"handler", "IncrementGRPCRequests", "RecordGRPCDuration">>

\* the gauge writes around the steps every call takes
BusinessOrder ==
  <<"SetActiveCalculations">> \o TechnicalOrder \o <<"SetActiveCalculations">>

\* C27: within one unary call the entry gauge write (business only) comes
\* before the handler, the handler is invoked exactly once, the technical
\* counter and duration are recorded only after the handler has returned,
\* and the exit gauge write (business only) comes after the technical
\* recording and before any domain count, duration or error of that call.
C27_StepsInFixedOrder ==
  \A c \in Calls :
    /\ Cardinality(OpsOf(c, "handler")) <= 1
    /\ pc[c] \notin {"idle", "handler"} =>
         Cardinality(OpsOf(c, "handler")) = 1
    /\ (Started(c) /\ ~Business(c)) => IsPrefix(OpNames(c), TechnicalOrder)
    /\ Business(c) =>
         \/ IsPrefix(OpNames(c), BusinessOrder)
         \/ OpNames(c) = BusinessOrder \o <<"IncrementCalculationErrors">>
         \/ OpNames(c) = BusinessOrder \o <<"IncrementCalculationsTotal">>
         \/ OpNames(c) = BusinessOrder
                           \o <<"IncrementCalculationsTotal",
                                "RecordCalculationDuration">>
    /\ Business(c) => Len(trace[c]) >= 1
    /\ pc[c] = "done" =>
         Len(trace[c]) >= (IF Business(c) THEN Len(BusinessOrder) + 1
                                          ELSE Len(TechnicalOrder))

C27_Witness ==
  \E c, d \in Calls :
    /\ pc[c] = "done" /\ Business(c) /\ err[c] = NoError
    /\ Len(trace[c]) = 7
    /\ pc[d] = "done" /\ Business(d) /\ err[d] # NoError
    /\ Len(trace[d]) = 6

\* call c has received its handler's return and not yet returned itself
Recording(c) ==
  pc[c] \in {"tech_counter", "tech_duration", "exit_gauge", "domain",
            "domain_duration", "stream_counter", "stream_duration"}

\* C28: no interceptor step of one call is ever disabled by the state of
\* another call: a call whose handler has returned can always take its next
\* recording step, whatever the other calls are doing, and eventually
\* returns to its caller: it leaves the recording steps only by returning,
\* and time and again no call is left inside them.
C28_NeverBlockedByAnotherCall ==
  /\ [](\A c \in Calls : Recording(c) => ENABLED RecordingStep(c))
  /\ [][\A c \in Calls :
          (Recording(c) /\ ~Recording(c)') => pc'[c] = "done"]_vars
  /\ []<>(\A c \in Calls : ~Recording(c))

C28_Witness ==
  \E c, d \in Calls :
    /\ pc[c] = "handler" /\ Business(c)
    /\ pc[d] = "done" /\ Business(d)
    /\ OpsOf(d, "RecordGRPCDuration") # {}

\* C29: the helper reading the in-flight count always returns 0, so every
\* entry-side gauge write of the unary interceptor sets the gauge to 1 and
\* every exit-side write sets it to -1, however many business calls are
\* inside the wrapper; the interceptor writes no other value.
C29_GaugeWritesAreOneAndMinusOne ==
  /\ activeCalculations \in {0, 1, -1}
  /\ \A c \in Calls :
       \A i \in OpsOf(c, "SetActiveCalculations") :
         trace[c][i].args =
           IF \E h \in OpsOf(c, "handler") : h < i THEN <<-1>> ELSE <<1>>

C29_Witness ==
  \E c, d \in Calls :
    /\ c # d
    /\ InsideWrapper(c) /\ pc[c] = "handler"
    /\ Business(d) /\ pc[d] = "domain"
    /\ activeCalculations = -1

\* C30: through the unary interceptor no weight, hydration, accuracy,
\* ingredient-validation or recipe-type metric is ever recorded, for any
\* address, response or error: the extractor returns "absent" for every
\* response, so recordBusinessMetrics is never reached.
C30_NoQualityMetricThroughInterceptor ==
  /\ doughWeights = << >>
  /\ doughHydrations = << >>
  /\ doughAccuracies = << >>
  /\ ingredientValidations = EmptyMap
  /\ recipeTypes = EmptyMap
  /\ \A c \in Calls :
       /\ \A i \in 1..Len(trace[c]) :
            trace[c][i].op \notin
              QualityOps \cup {"IncrementIngredientValidations",
                               "IncrementRecipeTypes"}
       /\ Started(c) => extractBusinessMetrics(resp[c]) = NoBusinessMetrics

C30_Witness ==
  \E c \in Calls :
    /\ pc[c] = "done" /\ Business(c)
    /\ resp[c] = "success response" /\ err[c] = NoError
    /\ OpsOf(c, "RecordCalculationDuration") # {}

\* label of the domain series that no call may update
LabelUnknownCalculation == "unknown_calculation"

\* the sink operations whose first argument is a calculation type
TypedDomainOps ==
  {"IncrementCalculationsTotal", "RecordCalculationDuration",
   "IncrementCalculationErrors"}

\* C31: on every string isCalculationMethod is true if and only if
\* getCalculationType is not "unknown_calculation"; so no call through the
\* interceptor ever updates a domain counter, duration or error series
\* labelled "unknown_calculation".
C31_ClassificationAgreesWithTypeLabel ==
  /\ applied = "isCalculationMethod, getCalculationType" =>
       (output[1] <=> output[2] # LabelUnknownCalculation)
  /\ LabelUnknownCalculation \notin DOMAIN calculationsTotal
  /\ LabelUnknownCalculation \notin DOMAIN calculationDurations
  /\ \A k \in DOMAIN calculationErrors : k[1] # LabelUnknownCalculation
  /\ \A c \in Calls : \A i \in 1..Len(trace[c]) :
       trace[c][i].op \in TypedDomainOps =>
         trace[c][i].args[1] # LabelUnknownCalculation

C31_Witness ==
  /\ applied = "isCalculationMethod, getCalculationType"
  /\ argAddress = AddrUnknownMethod
  /\ output = <<FALSE, LabelUnknownCalculation>>
  /\ \E c \in ClassifiedCalls :
       /\ pc[c] = "done"
       /\ fullMethod[c] = AddrUnknownMethod
       /\ OpsOf(c, "IncrementGRPCRequests") # {}

\* no call is inside an interceptor, and no handler has panicked
Quiescent == \A c \in Calls : pc[c] \in {"idle", "done"}

\* sum of the values of all series of a counter
RECURSIVE SumOfCounts(_)
SumOfCounts(m) ==
  IF DOMAIN m = {}
    THEN 0
    ELSE LET k == CHOOSE x \in DOMAIN m : TRUE
         IN  m[k] + SumOfCounts([x \in DOMAIN m \ {k} |-> m[x]])

\* number of observations in all series of a histogram
RECURSIVE NumObservations(_)
NumObservations(m) ==
  IF DOMAIN m = {}
    THEN 0
    ELSE LET k == CHOOSE x \in DOMAIN m : TRUE
         IN  Len(m[k]) + NumObservations([x \in DOMAIN m \ {k} |-> m[x]])

\* C32: in every quiescent state reached by any interleaving of unary and
\* stream calls whose handlers return, the technical request counters sum
\* to the number of technical duration observations and to the number of
\* completed calls, and for every calculation type the domain total-count
\* equals the number of domain duration observations of that type.
C32_CountersBalanceWhenQuiescent ==
  Quiescent =>
    /\ SumOfCounts(grpcRequests) = NumObservations(grpcDurations)
    /\ SumOfCounts(grpcRequests) = Cardinality({c \in Calls : pc[c] = "done"})
    /\ \A t \in DOMAIN calculationsTotal \cup DOMAIN calculationDurations :
         CounterGet(calculationsTotal, t)
           = Len(HistogramGet(calculationDurations, t))

C32_Witness ==
  /\ Quiescent
  /\ \E c, d \in Calls :
       /\ pc[c] = "done" /\ OpsOf(c, "RecordCalculationDuration") # {}
       /\ pc[d] = "done" /\ ret[d] = StreamInterceptorReturn(
                                       StatusError("InvalidArgument"))
  /\ SumOfCounts(grpcRequests) = 2
  /\ CounterGet(calculationsTotal, "dough_calculation") = 1

\* C33: RecordCalculation never writes the in-flight gauge and never
\* increments a recipe-type counter, for any CalculationResult, on the
\* success and on the failure path: it invokes neither operation, and the
\* gauge and the recipe-type series stay as they were before the call.
C33_RecorderLeavesGaugeAndRecipeTypes ==
  /\ \A i \in 1..Len(calls) :
       calls[i].op \notin {"SetActiveCalculations", "IncrementRecipeTypes"}
  /\ activeCalculations = 0
  /\ recipeTypes = EmptyMap

C33_Witness ==
  /\ Len(results) = 1
  /\ results[1].Success
  /\ results[1].Weight > 0
  /\ results[1].IngredientsUsed # << >>
  /\ Len(calls) > 3
  /\ calls[1].op = "IncrementCalculationsTotal"

\* a pan that one of the two collaborators rejects
Fails(item) == item.GetStrategyFails \/ item.CalculateFails

\* the calls made for the first n pans when each of them is computed
LookupsOfComputed(n) ==
  [k \in 1..(2 * n) |->
     IF k % 2 = 1
       THEN Op("GetStrategy", <<(k + 1) \div 2>>)
       ELSE Op("Calculate", <<k \div 2>>)]

\* the calls made for pan i when it is the one that fails
LookupsOfFailing(i) ==
  IF body.Pans[i].GetStrategyFails
    THEN <<Op("GetStrategy", <<i>>)>>
    ELSE <<Op("GetStrategy", <<i>>), Op("Calculate", <<i>>)>>

\* C34: TotalDoughWeightByPans processes the pans in input order and aborts
\* at the first pan whose shape has no strategy (error "unsupported shape")
\* or whose calculation fails (error "error processing pan"): it returns a
\* nil result together with that error, never a partial result, and the
\* later pans are not processed.
C34_AbortsAtFirstFailingPan ==
  /\ \A k \in 1..(Len(lookups) - 1) :
       lookups[k].args[1] <= lookups[k + 1].args[1]
  /\ \A i \in 1..Len(body.Pans) :
       (Fails(body.Pans[i]) /\ \A j \in 1..(i - 1) : ~Fails(body.Pans[j])) =>
         /\ index <= i
         /\ \A k \in 1..Len(lookups) : lookups[k].args[1] <= i
         /\ reply # NotReturned =>
              /\ reply[1] = NilPans
              /\ reply[2] =
                   ErrorsNew(IF body.Pans[i].GetStrategyFails
                               THEN "unsupported shape"
                               ELSE "error processing pan")
              /\ lookups = LookupsOfComputed(i - 1) \o LookupsOfFailing(i)

C34_Witness ==
  /\ Len(body.Pans) = 3
  /\ ~Fails(body.Pans[1])
  /\ body.Pans[2].CalculateFails /\ ~body.Pans[2].GetStrategyFails
  /\ reply = <<NilPans, ErrorsNew("error processing pan")>>
  /\ Len(lookups) = 4
  /\ Len(resultPans.Pans) = 1

\* sum of the areas of a list of computed pans
RECURSIVE SumOfAreas(_)
SumOfAreas(pans) ==
  IF pans = << >> THEN 0 ELSE Head(pans).Area + SumOfAreas(Tail(pans))

\* C35: when every pan is processed successfully, TotalDoughWeightByPans
\* returns a nil error and a result holding one computed pan per input pan
\* in the same order, whose TotalArea is the sum of the computed pans'
\* areas; an empty input gives no pans and TotalArea 0.
C35_AllPansComputedAndSummed ==
  ((\A i \in 1..Len(body.Pans) : ~Fails(body.Pans[i]))
     /\ reply # NotReturned) =>
    /\ reply[2] = NoError
    /\ reply[1] # NilPans
    /\ Len(reply[1].Pans) = Len(body.Pans)
    /\ \A i \in 1..Len(body.Pans) :
         /\ reply[1].Pans[i].Shape = body.Pans[i].Shape
         /\ reply[1].Pans[i].Area = body.Pans[i].Area
    /\ reply[1].TotalArea = SumOfAreas(reply[1].Pans)
    /\ lookups = LookupsOfComputed(Len(body.Pans))
    /\ body.Pans = << >> =>
         (reply[1].Pans = << >> /\ reply[1].TotalArea = 0)

C35_Witness ==
  /\ Len(body.Pans) = 2
  /\ body.Pans[1].Shape = "round" /\ body.Pans[1].Area = 100
  /\ body.Pans[2].Shape = "square" /\ body.Pans[2].Area = 150
  /\ reply # NotReturned
  /\ reply[2] = NoError
  /\ reply[1].TotalArea = 250

\* C36: for an address that starts with '/', contains a later '/', and whose
\* text between the leading slash and the last '/' has at least two
\* non-empty dot-separated segments, extractMethodName returns exactly the
\* text after the last '/': the empty label when that text is empty, not
\* "unknown", and the same when the service path contains further '/'.
C36_ParseableYieldsTextAfterLastSlash ==
  (applied = "extractMethodName" /\ ~Unparseable(argAddress)) =>
    /\ output = SubSeq(argAddress, LastSlash(argAddress) + 1, Len(argAddress))
    /\ LastSlash(argAddress) = Len(argAddress) => output = << >>
    /\ argAddress = AddrGetHealth =>
         output = <<"G", "e", "t", "H", "e", "a", "l", "t", "h">>

C36_Witness ==
  /\ applied = "extractMethodName"
  /\ argAddress = <<"/", "a", ".", "/", "/">>
  /\ ~Unparseable(argAddress)
  /\ \E i \in 1..Len(ServicePath(argAddress)) : ServicePath(argAddress)[i] = "/"
  /\ output = << >>

====
